---- MODULE Spec2Model ----
(***************************************************************************)
(* Model of the correlation-tracking scalar `udouble`, its variable        *)
(* registry and its arithmetic operators (bgatten/uncertainties-cpp).      *)
(*                                                                         *)
(* A C++ `double` is modelled as a binary floating-point number with       *)
(* round-to-nearest-even and a significand of MantBits bits (53 in the     *)
(* build; reduced here so that significand products stay inside TLC's      *)
(* integers).  A value is the pair <<m, e>> standing for m * 2^e, kept in  *)
(* canonical form: m odd, or <<0, 0>> for zero.  Executions in which a     *)
(* value or an intermediate leaves the normal range of a double            *)
(* (overflow, underflow, NaN) are outside the explored domain: the         *)
(* actions are guarded by InRange.  The sign of zero is not kept.          *)
(***************************************************************************)
EXTENDS Integers, Sequences, FiniteSets, TLC

\* ------------------------------------------------------------------ bounds
MantBits == 4
MaxSteps == 3
MaxOps == 2
MaxCalls == 3
MaxFrame == 1

\* --------------------------------------------------- double arithmetic
MinExp == 0 - 1022
MaxExp == 1023

Zero == <<0, 0>>
One == <<1, 0>>
Two == <<1, 1>>

IAbs(n) == IF n < 0 THEN 0 - n ELSE n

RECURSIVE BitLen(_)
BitLen(n) == IF n = 0 THEN 0 ELSE 1 + BitLen(n \div 2)

RECURSIVE Canon(_, _)
Canon(m, e) ==
    IF m = 0 THEN Zero
    ELSE IF m % 2 = 0 THEN Canon(m \div 2, e + 1)
    ELSE <<m, e>>

RoundMag(M, e) ==
    LET L == BitLen(M) IN
    IF L <= MantBits THEN Canon(M, e)
    ELSE LET s == L - MantBits
             q == M \div (2 ^ s)
             r == M % (2 ^ s)
             h == 2 ^ (s - 1)
             up == r > h \/ (r = h /\ q % 2 = 1)
         IN Canon(IF up THEN q + 1 ELSE q, e + s)

FNeg(a) == <<0 - a[1], a[2]>>

Round(M, e) == IF M < 0 THEN FNeg(RoundMag(0 - M, e)) ELSE RoundMag(M, e)

FAbs(a) == <<IAbs(a[1]), a[2]>>

IsZero(a) == a[1] = 0

\* exponent of the leading bit of a nonzero value
TopExp(a) == a[2] + BitLen(IAbs(a[1])) - 1

InRange(a) == IsZero(a) \/ (TopExp(a) >= MinExp /\ TopExp(a) <= MaxExp)

FMul(a, b) == Round(a[1] * b[1], a[2] + b[2])

FAdd(a, b) ==
    IF IsZero(a) THEN b
    ELSE IF IsZero(b) THEN a
    ELSE IF a[2] - b[2] >= 2 * MantBits + 2 THEN a
    ELSE IF b[2] - a[2] >= 2 * MantBits + 2 THEN b
    ELSE LET e == IF a[2] < b[2] THEN a[2] ELSE b[2]
         IN Round(a[1] * (2 ^ (a[2] - e)) + b[1] * (2 ^ (b[2] - e)), e)

FSub(a, b) == FAdd(a, FNeg(b))

FDiv(a, b) ==
    LET k == 2 * MantBits + 2
        n == IAbs(a[1]) * (2 ^ k)
        d == IAbs(b[1])
        q == n \div d
        sticky == IF n % d = 0 THEN 0 ELSE 1
        mag == RoundMag(2 * q + sticky, a[2] - b[2] - k - 1)
    IN IF (a[1] < 0) # (b[1] < 0) THEN FNeg(mag) ELSE mag

RECURSIVE ISqrt(_)
ISqrt(n) ==
    IF n < 2 THEN n
    ELSE LET s == 2 * ISqrt(n \div 4)
         IN IF (s + 1) * (s + 1) <= n THEN s + 1 ELSE s

FSqrt(a) ==
    IF IsZero(a) THEN Zero
    ELSE LET k0 == 2 * MantBits + 4
             k == k0 + ((a[2] - k0) % 2)
             n == a[1] * (2 ^ k)
             r == ISqrt(n)
             sticky == IF r * r = n THEN 0 ELSE 1
         IN RoundMag(2 * r + sticky, ((a[2] - k) \div 2) - 1)

\* a < b on magnitudes of nonzero values
MagLess(a, b) ==
    IF TopExp(a) # TopExp(b) THEN TopExp(a) < TopExp(b)
    ELSE LET e == IF a[2] < b[2] THEN a[2] ELSE b[2]
         IN IAbs(a[1]) * (2 ^ (a[2] - e)) < IAbs(b[1]) * (2 ^ (b[2] - e))

FLess(a, b) ==
    IF IsZero(a) THEN b[1] > 0
    ELSE IF IsZero(b) THEN a[1] < 0
    ELSE IF a[1] < 0 /\ b[1] > 0 THEN TRUE
    ELSE IF a[1] > 0 /\ b[1] < 0 THEN FALSE
    ELSE IF a[1] > 0 THEN MagLess(a, b)
    ELSE MagLess(b, a)

FEq(a, b) == a = b

FLessEq(a, b) == FLess(a, b) \/ FEq(a, b)

\* the literals 0.1 and 0.2 of the tests: the doubles nearest to 1/10 and 1/5
Ten == <<5, 1>>
Five == <<5, 0>>
Tenth == FDiv(One, Ten)
Fifth == FDiv(One, Five)
Half == <<1, 0 - 1>>
\* a double below the pruning threshold (about 4.7e-302)
Tiny == <<1, 0 - 1001>>

\* 1e-300 rounded to the modelled significand
PRUNE_THRESHOLD == <<11, 0 - 1000>>

\* ------------------------------------------------------------ inputs
VarSlots == 1 .. 2
TmpSlot == Cardinality(VarSlots) + 1
Slots == VarSlots \cup {TmpSlot}
Nominals == {Zero, One, Two, Tenth}
Sigmas == {FNeg(Tenth), Zero, Tenth, Fifth}
Doubles == {Zero, Two, Tiny}
RegSigmas == {Tenth, Fifth}
LookupIds == 1 .. 2
MathNominals == {FNeg(Two), FNeg(One), Zero, Tiny, Half, One, Two}

VARIABLES stddevs_, next_id_, objs, last, steps, threads, mutex_, issued

vars == <<stddevs_, next_id_, objs, last, steps, threads, mutex_, issued>>

\* ------------------------------------------------- VariableRegistry
\* register_variable, run without interleaving: the id it returns and the
\* registry it leaves
RegisteredIdOffByOne(next) == next + 1
RegisteredId(next) == next
\* stddevs_ = {{id, stddev}}: the insertion replaces the map
RegisteredMapAlone(reg, next, stddev) == [i \in {next} |-> stddev]
RegisteredMap(reg, next, stddev) ==
    [i \in DOMAIN reg \cup {next} |-> IF i = next THEN stddev ELSE reg[i]]
\* fetch_add whose increment is lost
RegisteredNextStuck(next) == next
RegisteredNext(next) == next + 1

\* get_stddev throws for an id that is not in the map
GetStddevThrows(reg, id) == id \notin DOMAIN reg
get_stddev(reg, id) == reg[id]

RegistrySize(reg) == Cardinality(DOMAIN reg)

\* ---------------------------------------------------------- udouble
MkUdouble(nominal, derivatives) ==
    [nominal_ |-> nominal, derivatives_ |-> derivatives]

EmptyMap == << >>

num_variables(u) == Cardinality(DOMAIN u.derivatives_)

\* is_atomic that tests the size of the map only
is_atomic_any_value(u) == Cardinality(DOMAIN u.derivatives_) = 1
is_atomic(u) ==
    /\ Cardinality(DOMAIN u.derivatives_) = 1
    /\ \A id \in DOMAIN u.derivatives_ : u.derivatives_[id] = One

\* operator[] of the map value-initialises a missing entry to 0.0
MapGet(m, id) == IF id \in DOMAIN m THEN m[id] ELSE Zero

\* for (id, deriv) in src: acc[id] = deriv, in place of +=
AddEachOverwrites(acc, src) ==
    [id \in DOMAIN acc \cup DOMAIN src |->
        IF id \in DOMAIN src THEN src[id] ELSE acc[id]]

\* for (id, deriv) in src: acc[id] += deriv
AddEach(acc, src) ==
    [id \in DOMAIN acc \cup DOMAIN src |->
        IF id \in DOMAIN src THEN FAdd(MapGet(acc, id), src[id]) ELSE acc[id]]

\* for (id, deriv) in src: acc[id] += deriv, in place of -=
SubEachAdds(acc, src) ==
    [id \in DOMAIN acc \cup DOMAIN src |->
        IF id \in DOMAIN src THEN FAdd(MapGet(acc, id), src[id]) ELSE acc[id]]

\* for (id, deriv) in src: acc[id] -= deriv
SubEach(acc, src) ==
    [id \in DOMAIN acc \cup DOMAIN src |->
        IF id \in DOMAIN src THEN FSub(MapGet(acc, id), src[id]) ELSE acc[id]]

\* for (id, deriv) in src: acc[id] += k * deriv
AddScaled(acc, src, k) ==
    [id \in DOMAIN acc \cup DOMAIN src |->
        IF id \in DOMAIN src THEN FAdd(MapGet(acc, id), FMul(k, src[id]))
        ELSE acc[id]]

\* for (id, deriv) in src: acc[id] -= k * deriv
SubScaled(acc, src, k) ==
    [id \in DOMAIN acc \cup DOMAIN src |->
        IF id \in DOMAIN src THEN FSub(MapGet(acc, id), FMul(k, src[id]))
        ELSE acc[id]]

\* for (id, deriv) in src: new_derivs[id] = k * deriv
SetScaled(src, k) == [id \in DOMAIN src |-> FMul(k, src[id])]

Pruned(d) == FLess(FAbs(d), PRUNE_THRESHOLD)

prune_derivatives(derivs) ==
    [id \in {i \in DOMAIN derivs : ~Pruned(derivs[i])} |-> derivs[id]]

MapInRange(m) == \A id \in DOMAIN m : InRange(m[id])

\* ------------------------------------------------ udouble::stddev()
RECURSIVE Perms(_)
Perms(S) ==
    IF S = {} THEN {<< >>}
    ELSE UNION {{<<x>> \o p : p \in Perms(S \ {x})} : x \in S}

\* deriv * original_stddev * original_stddev: the derivative is not squared
VarianceTermLinear(deriv, original_stddev) ==
    FMul(FMul(deriv, original_stddev), original_stddev)

\* deriv * deriv * original_stddev * original_stddev
VarianceTerm(deriv, original_stddev) ==
    FMul(FMul(FMul(deriv, deriv), original_stddev), original_stddev)

\* the loop of stddev() taking the entries in the order `order`
RECURSIVE VarianceAlong(_, _, _, _)
VarianceAlong(order, derivs, reg, variance) ==
    IF order = << >> THEN variance
    ELSE VarianceAlong(Tail(order), derivs, reg,
            FAdd(variance,
                 VarianceTerm(derivs[Head(order)], get_stddev(reg, Head(order)))))

StddevThrows(u, reg) ==
    \E id \in DOMAIN u.derivatives_ : GetStddevThrows(reg, id)

\* the values `variance` can hold when the loop ends: the iteration order of
\* an unordered_map is unspecified
Variances(u, reg) ==
    {VarianceAlong(p, u.derivatives_, reg, Zero) : p \in Perms(DOMAIN u.derivatives_)}

\* stddev() returning the variance, the square root forgotten
StddevNoSqrt(u, reg) ==
    IF DOMAIN u.derivatives_ = {} THEN {Zero} ELSE Variances(u, reg)

\* the values stddev() can return
stddev(u, reg) ==
    IF DOMAIN u.derivatives_ = {} THEN {Zero}
    ELSE {FSqrt(v) : v \in Variances(u, reg)}

StddevInRange(u, reg) ==
    /\ \A id \in DOMAIN u.derivatives_ :
          /\ InRange(FMul(u.derivatives_[id], u.derivatives_[id]))
          /\ InRange(FMul(FMul(u.derivatives_[id], u.derivatives_[id]), reg[id]))
          /\ InRange(VarianceTerm(u.derivatives_[id], reg[id]))
    /\ \A v \in Variances(u, reg) : InRange(v)

\* ------------------------------------------- arithmetic operators
AddDerivs(lhs, rhs) == AddEach(lhs.derivatives_, rhs.derivatives_)

OpAdd(lhs, rhs) ==
    MkUdouble(FAdd(lhs.nominal_, rhs.nominal_),
              prune_derivatives(AddDerivs(lhs, rhs)))

SubDerivs(lhs, rhs) == SubEach(lhs.derivatives_, rhs.derivatives_)

OpSub(lhs, rhs) ==
    MkUdouble(FSub(lhs.nominal_, rhs.nominal_),
              prune_derivatives(SubDerivs(lhs, rhs)))

\* each operand's derivatives scaled by its own nominal value
MulDerivsOwnNominal(lhs, rhs) ==
    AddScaled(AddScaled(EmptyMap, lhs.derivatives_, lhs.nominal_),
              rhs.derivatives_, rhs.nominal_)

MulDerivs(lhs, rhs) ==
    AddScaled(AddScaled(EmptyMap, lhs.derivatives_, rhs.nominal_),
              rhs.derivatives_, lhs.nominal_)

OpMul(lhs, rhs) ==
    MkUdouble(FMul(lhs.nominal_, rhs.nominal_),
              prune_derivatives(MulDerivs(lhs, rhs)))

MulDoubleDerivs(lhs, rhs) == SetScaled(lhs.derivatives_, rhs)

OpMulDouble(lhs, rhs) ==
    MkUdouble(FMul(lhs.nominal_, rhs),
              prune_derivatives(MulDoubleDerivs(lhs, rhs)))

\* operator*(double, udouble) returns rhs * lhs
OpDoubleMul(lhs, rhs) == OpMulDouble(rhs, lhs)

\* a zero dividend is rejected as well
DivThrowsOnZeroDividend(lhs, rhs) ==
    IsZero(rhs.nominal_) \/ IsZero(lhs.nominal_)

DivThrows(lhs, rhs) == IsZero(rhs.nominal_)

inv_b(rhs) == FDiv(One, rhs.nominal_)

a_over_b_sq(lhs, rhs) ==
    FDiv(lhs.nominal_, FMul(rhs.nominal_, rhs.nominal_))

\* the divisor's contribution added instead of subtracted
DivDerivsAdds(lhs, rhs) ==
    AddScaled(AddScaled(EmptyMap, lhs.derivatives_, inv_b(rhs)),
              rhs.derivatives_, a_over_b_sq(lhs, rhs))

DivDerivs(lhs, rhs) ==
    SubScaled(AddScaled(EmptyMap, lhs.derivatives_, inv_b(rhs)),
              rhs.derivatives_, a_over_b_sq(lhs, rhs))

OpDiv(lhs, rhs) ==
    MkUdouble(FDiv(lhs.nominal_, rhs.nominal_),
              prune_derivatives(DivDerivs(lhs, rhs)))

DivDoubleThrows(lhs, rhs) == IsZero(rhs)

DivDoubleDerivs(lhs, rhs) == SetScaled(lhs.derivatives_, FDiv(One, rhs))

OpDivDouble(lhs, rhs) ==
    MkUdouble(FDiv(lhs.nominal_, rhs),
              prune_derivatives(DivDoubleDerivs(lhs, rhs)))

DoubleDivThrows(lhs, rhs) == IsZero(rhs.nominal_)

DoubleDivCoef(lhs, rhs) ==
    FDiv(FNeg(lhs), FMul(rhs.nominal_, rhs.nominal_))

DoubleDivDerivs(lhs, rhs) == SetScaled(rhs.derivatives_, DoubleDivCoef(lhs, rhs))

OpDoubleDiv(lhs, rhs) ==
    MkUdouble(FDiv(lhs, rhs.nominal_),
              prune_derivatives(DoubleDivDerivs(lhs, rhs)))

\* the explored domain: every double an operator computes is a normal
\* double or zero
ResultInRange(nominal, raw) == InRange(nominal) /\ MapInRange(raw)

DivInRange(lhs, rhs) ==
    /\ InRange(inv_b(rhs))
    /\ InRange(FMul(rhs.nominal_, rhs.nominal_))
    /\ InRange(a_over_b_sq(lhs, rhs))
    /\ \A id \in DOMAIN lhs.derivatives_ :
          InRange(FMul(inv_b(rhs), lhs.derivatives_[id]))
    /\ \A id \in DOMAIN rhs.derivatives_ :
          InRange(FMul(a_over_b_sq(lhs, rhs), rhs.derivatives_[id]))

\* ------------------------------------------------------------ state
Put(f, k, v) == [i \in DOMAIN f \cup {k} |-> IF i = k THEN v ELSE f[i]]

Live == DOMAIN objs

\* what the last call was, what it was given and the state it started from
Call(op, threw, a, b, v, sd, dst) ==
    [op |-> op, threw |-> threw, a |-> a, b |-> b, v |-> v, sd |-> sd,
     dst |-> dst, n |-> 0, truth |-> FALSE, pre |-> objs,
     pre_next_id |-> next_id_, pre_stddevs |-> stddevs_]

\* no call has been made
NoCall ==
    [op |-> "none", threw |-> "none", a |-> 0, b |-> 0, v |-> Zero,
     sd |-> Zero, dst |-> 0, n |-> 0, truth |-> FALSE, pre |-> EmptyMap,
     pre_next_id |-> 1, pre_stddevs |-> EmptyMap]

\* the threads calling the registry; none is inside a call
Threads == 1 .. 3

IdleThread ==
    [pc |-> "idle", op |-> "none", arg |-> Zero, id |-> 0, ret |-> Zero,
     threw |-> "none", seen |-> {}]

\* std::shared_mutex: the thread holding it exclusively (0: none) and the
\* threads holding it shared
FreeMutex == [writer |-> 0, readers |-> {}]

NoCalls ==
    /\ threads = [t \in Threads |-> IdleThread]
    /\ mutex_ = FreeMutex
    /\ issued = << >>

Init ==
    /\ stddevs_ = EmptyMap
    /\ next_id_ = 1
    /\ objs = EmptyMap
    /\ steps = 0
    /\ NoCalls
    /\ last = NoCall

Step ==
    /\ steps < MaxSteps
    /\ steps' = steps + 1
    /\ UNCHANGED <<threads, mutex_, issued>>

\* a variable is constructed once, x (slot 1) before y (slot 2)
Fresh(s) == s \notin DOMAIN objs /\ (s = 1 \/ 1 \in DOMAIN objs)

Returns(op, a, b, v, sd, dst, result) ==
    /\ objs' = Put(objs, dst, result)
    /\ last' = Call(op, "none", a, b, v, sd, dst)

Throws(op, what, a, b, v, sd, dst) ==
    /\ objs' = objs
    /\ last' = Call(op, what, a, b, v, sd, dst)

\* ----------------------------------------------------- constructors
\* udouble()
DefaultConstruct(s) ==
    /\ Step
    /\ Fresh(s)
    /\ Returns("udouble()", 0, 0, Zero, Zero, s, MkUdouble(Zero, EmptyMap))
    /\ UNCHANGED <<stddevs_, next_id_>>

\* udouble(double nominal)
ConstructFromDouble(s, nominal) ==
    /\ Step
    /\ Fresh(s)
    /\ Returns("udouble(double)", 0, 0, nominal, Zero, s,
               MkUdouble(nominal, EmptyMap))
    /\ UNCHANGED <<stddevs_, next_id_>>

\* the constructor registering its variable before it validates stddev
ConstructBodyRegistersFirst(op, a, s, nominal, sd) ==
    IF FLess(sd, Zero)
    THEN /\ Throws(op, "invalid_argument", a, 0, nominal, sd, s)
         /\ stddevs_' = RegisteredMap(stddevs_, next_id_, sd)
         /\ next_id_' = RegisteredNext(next_id_)
    ELSE IF FLess(Zero, sd)
    THEN /\ stddevs_' = RegisteredMap(stddevs_, next_id_, sd)
         /\ next_id_' = RegisteredNext(next_id_)
         /\ Returns(op, a, 0, nominal, sd, s,
                    MkUdouble(nominal, Put(EmptyMap, RegisteredId(next_id_), One)))
    ELSE /\ Returns(op, a, 0, nominal, sd, s, MkUdouble(nominal, EmptyMap))
         /\ UNCHANGED <<stddevs_, next_id_>>

\* the constructor registering a deviation of 0 as well
ConstructBodyRegistersZero(op, a, s, nominal, sd) ==
    IF FLess(sd, Zero)
    THEN /\ Throws(op, "invalid_argument", a, 0, nominal, sd, s)
         /\ UNCHANGED <<stddevs_, next_id_>>
    ELSE /\ stddevs_' = RegisteredMap(stddevs_, next_id_, sd)
         /\ next_id_' = RegisteredNext(next_id_)
         /\ Returns(op, a, 0, nominal, sd, s,
                    MkUdouble(nominal, Put(EmptyMap, RegisteredId(next_id_), One)))

\* the body shared by udouble(double, double) and independent_copy()
ConstructBody(op, a, s, nominal, sd) ==
    IF FLess(sd, Zero)
    THEN /\ Throws(op, "invalid_argument", a, 0, nominal, sd, s)
         /\ UNCHANGED <<stddevs_, next_id_>>
    ELSE IF FLess(Zero, sd)
    THEN /\ stddevs_' = RegisteredMap(stddevs_, next_id_, sd)
         /\ next_id_' = RegisteredNext(next_id_)
         /\ Returns(op, a, 0, nominal, sd, s,
                    MkUdouble(nominal, Put(EmptyMap, RegisteredId(next_id_), One)))
    ELSE /\ Returns(op, a, 0, nominal, sd, s, MkUdouble(nominal, EmptyMap))
         /\ UNCHANGED <<stddevs_, next_id_>>

\* udouble(double nominal, double stddev)
Construct(s, nominal, sd) ==
    /\ Step
    /\ Fresh(s)
    /\ ConstructBody("udouble(double,double)", 0, s, nominal, sd)

\* dst = objs[a].independent_copy()
IndependentCopy(a, dst) ==
    /\ Step
    /\ a \in Live
    /\ Fresh(dst)
    /\ IF StddevThrows(objs[a], stddevs_)
       THEN /\ Throws("independent_copy", "runtime_error", a, 0, Zero, Zero, dst)
            /\ UNCHANGED <<stddevs_, next_id_>>
       ELSE /\ StddevInRange(objs[a], stddevs_)
            /\ \E sd \in stddev(objs[a], stddevs_) :
                  ConstructBody("independent_copy", a, dst, objs[a].nominal_, sd)

\* set_stddev without derivatives_.clear(): the new entry joins the old map
SetStddevKeepsMap(s, value) ==
    /\ Step
    /\ s \in Live
    /\ IF FLess(value, Zero)
       THEN /\ Throws("set_stddev", "invalid_argument", s, 0, Zero, value, s)
            /\ UNCHANGED <<stddevs_, next_id_>>
       ELSE IF FLess(Zero, value)
       THEN /\ stddevs_' = RegisteredMap(stddevs_, next_id_, value)
            /\ next_id_' = RegisteredNext(next_id_)
            /\ Returns("set_stddev", s, 0, Zero, value, s,
                       MkUdouble(objs[s].nominal_,
                                 Put(objs[s].derivatives_,
                                     RegisteredId(next_id_), One)))
       ELSE /\ Returns("set_stddev", s, 0, Zero, value, s, objs[s])
            /\ UNCHANGED <<stddevs_, next_id_>>

\* objs[s].set_stddev(value)
SetStddev(s, value) ==
    /\ Step
    /\ s \in Live
    /\ IF FLess(value, Zero)
       THEN /\ Throws("set_stddev", "invalid_argument", s, 0, Zero, value, s)
            /\ UNCHANGED <<stddevs_, next_id_>>
       ELSE IF FLess(Zero, value)
       THEN /\ stddevs_' = RegisteredMap(stddevs_, next_id_, value)
            /\ next_id_' = RegisteredNext(next_id_)
            /\ Returns("set_stddev", s, 0, Zero, value, s,
                       MkUdouble(objs[s].nominal_,
                                 Put(EmptyMap, RegisteredId(next_id_), One)))
       ELSE /\ Returns("set_stddev", s, 0, Zero, value, s,
                       MkUdouble(objs[s].nominal_, EmptyMap))
            /\ UNCHANGED <<stddevs_, next_id_>>

\* ------------------------------------------------ operator actions
\* objs[dst] = objs[a] + objs[b]
Add(a, b, dst) ==
    /\ Step
    /\ a \in Live /\ b \in Live
    /\ ResultInRange(OpAdd(objs[a], objs[b]).nominal_, AddDerivs(objs[a], objs[b]))
    /\ Returns("+", a, b, Zero, Zero, dst, OpAdd(objs[a], objs[b]))
    /\ UNCHANGED <<stddevs_, next_id_>>

\* objs[dst] = objs[a] - objs[b]
Sub(a, b, dst) ==
    /\ Step
    /\ a \in Live /\ b \in Live
    /\ ResultInRange(OpSub(objs[a], objs[b]).nominal_, SubDerivs(objs[a], objs[b]))
    /\ Returns("-", a, b, Zero, Zero, dst, OpSub(objs[a], objs[b]))
    /\ UNCHANGED <<stddevs_, next_id_>>

\* objs[dst] = objs[a] * objs[b]
Mul(a, b, dst) ==
    /\ Step
    /\ a \in Live /\ b \in Live
    /\ ResultInRange(OpMul(objs[a], objs[b]).nominal_, MulDerivs(objs[a], objs[b]))
    /\ \A id \in DOMAIN objs[a].derivatives_ :
          InRange(FMul(objs[b].nominal_, objs[a].derivatives_[id]))
    /\ \A id \in DOMAIN objs[b].derivatives_ :
          InRange(FMul(objs[a].nominal_, objs[b].derivatives_[id]))
    /\ Returns("*", a, b, Zero, Zero, dst, OpMul(objs[a], objs[b]))
    /\ UNCHANGED <<stddevs_, next_id_>>

\* objs[dst] = objs[a] * c
MulDouble(a, c, dst) ==
    /\ Step
    /\ a \in Live
    /\ ResultInRange(OpMulDouble(objs[a], c).nominal_, MulDoubleDerivs(objs[a], c))
    /\ Returns("u*d", a, 0, c, Zero, dst, OpMulDouble(objs[a], c))
    /\ UNCHANGED <<stddevs_, next_id_>>

\* objs[dst] = c * objs[a]
DoubleMul(c, a, dst) ==
    /\ Step
    /\ a \in Live
    /\ ResultInRange(OpDoubleMul(c, objs[a]).nominal_, MulDoubleDerivs(objs[a], c))
    /\ Returns("d*u", a, 0, c, Zero, dst, OpDoubleMul(c, objs[a]))
    /\ UNCHANGED <<stddevs_, next_id_>>

\* objs[dst] = objs[a] / objs[b]; with dst = a it is objs[a] /= objs[b]
Div(a, b, dst) ==
    /\ Step
    /\ a \in Live /\ b \in Live
    /\ IF DivThrows(objs[a], objs[b])
       THEN Throws("/", "runtime_error", a, b, Zero, Zero, dst)
       ELSE /\ DivInRange(objs[a], objs[b])
            /\ ResultInRange(OpDiv(objs[a], objs[b]).nominal_,
                             DivDerivs(objs[a], objs[b]))
            /\ Returns("/", a, b, Zero, Zero, dst, OpDiv(objs[a], objs[b]))
    /\ UNCHANGED <<stddevs_, next_id_>>

\* objs[dst] = objs[a] / c; with dst = a it is objs[a] /= c
DivDouble(a, c, dst) ==
    /\ Step
    /\ a \in Live
    /\ IF DivDoubleThrows(objs[a], c)
       THEN Throws("u/d", "runtime_error", a, 0, c, Zero, dst)
       ELSE /\ InRange(FDiv(One, c))
            /\ ResultInRange(OpDivDouble(objs[a], c).nominal_,
                             DivDoubleDerivs(objs[a], c))
            /\ Returns("u/d", a, 0, c, Zero, dst, OpDivDouble(objs[a], c))
    /\ UNCHANGED <<stddevs_, next_id_>>

\* objs[dst] = c / objs[a]
DoubleDiv(c, a, dst) ==
    /\ Step
    /\ a \in Live
    /\ IF DoubleDivThrows(c, objs[a])
       THEN Throws("d/u", "runtime_error", a, 0, c, Zero, dst)
       ELSE /\ InRange(FMul(objs[a].nominal_, objs[a].nominal_))
            /\ InRange(DoubleDivCoef(c, objs[a]))
            /\ ResultInRange(OpDoubleDiv(c, objs[a]).nominal_,
                             DoubleDivDerivs(c, objs[a]))
            /\ Returns("d/u", a, 0, c, Zero, dst, OpDoubleDiv(c, objs[a]))
    /\ UNCHANGED <<stddevs_, next_id_>>

Next ==
    \/ \E s \in VarSlots : DefaultConstruct(s)
    \/ \E s \in VarSlots, n \in Nominals : ConstructFromDouble(s, n)
    \/ \E s \in VarSlots, n \in Nominals, sd \in Sigmas : Construct(s, n, sd)
    \/ \E a \in Slots, dst \in VarSlots : IndependentCopy(a, dst)
    \/ \E s \in Slots, sd \in Sigmas : SetStddev(s, sd)
    \/ \E a \in Slots, b \in Slots : Add(a, b, TmpSlot)
    \/ \E a \in Slots, b \in Slots : Sub(a, b, TmpSlot)
    \/ \E a \in Slots, b \in Slots : Mul(a, b, TmpSlot)
    \/ \E a \in Slots, c \in Doubles : MulDouble(a, c, TmpSlot)
    \/ \E a \in VarSlots, c \in Doubles : DoubleMul(c, a, TmpSlot)
    \/ \E a \in Slots, b \in Slots : \E dst \in {a, TmpSlot} : Div(a, b, dst)
    \/ \E a \in Slots, c \in Doubles : \E dst \in {a, TmpSlot} : DivDouble(a, c, dst)
    \/ \E a \in Slots, c \in Doubles : DoubleDiv(c, a, TmpSlot)

Spec == Init /\ [][Next]_vars

\* ------------------------------------------- operator chains on x, y
\* The state after `udouble x(nx, sx); udouble y(ny, sy);` on a fresh
\* registry, for non-negative sx and sy.
Constructed(reg, next, nominal, sd) ==
    IF FLess(Zero, sd)
    THEN [reg |-> RegisteredMap(reg, next, sd), next |-> RegisteredNext(next),
          u |-> MkUdouble(nominal, Put(EmptyMap, RegisteredId(next), One))]
    ELSE [reg |-> reg, next |-> next, u |-> MkUdouble(nominal, EmptyMap)]

InitOps ==
    \E nx \in Nominals, ny \in Nominals :
    \E sx \in {Zero, Tenth}, sy \in {Zero, Fifth} :
        LET cx == Constructed(EmptyMap, 1, nx, sx)
            cy == Constructed(cx.reg, cx.next, ny, sy)
        IN /\ stddevs_ = cy.reg
           /\ next_id_ = cy.next
           /\ objs = Put(Put(EmptyMap, 1, cx.u), 2, cy.u)
           /\ steps = 0
           /\ NoCalls
           /\ last = NoCall

NextOps ==
    \/ \E a \in Slots, b \in Slots : steps < MaxOps /\ Add(a, b, TmpSlot)
    \/ \E a \in Slots, b \in Slots : steps < MaxOps /\ Sub(a, b, TmpSlot)
    \/ \E a \in Slots, b \in Slots : steps < MaxOps /\ Mul(a, b, TmpSlot)
    \/ \E a \in Slots, b \in Slots : steps < MaxOps /\ Div(a, b, TmpSlot)

SpecOps == InitOps /\ [][NextOps]_vars

\* ------------------------------ comparisons, accessors and clear()
\* comparison operators of udouble
OpEq(lhs, rhs) == FEq(lhs.nominal_, rhs.nominal_)
OpNe(lhs, rhs) == ~FEq(lhs.nominal_, rhs.nominal_)
OpLt(lhs, rhs) == FLess(lhs.nominal_, rhs.nominal_)
OpGt(lhs, rhs) == FLess(rhs.nominal_, lhs.nominal_)
OpLe(lhs, rhs) == FLessEq(lhs.nominal_, rhs.nominal_)
\* >= written as >
OpGeStrict(lhs, rhs) == FLess(rhs.nominal_, lhs.nominal_)
OpGe(lhs, rhs) == FLessEq(rhs.nominal_, lhs.nominal_)

CmpOps == {"==", "!=", "<", ">", "<=", ">="}

Compared(op, lhs, rhs) ==
    CASE op = "==" -> OpEq(lhs, rhs)
      [] op = "!=" -> OpNe(lhs, rhs)
      [] op = "<" -> OpLt(lhs, rhs)
      [] op = ">" -> OpGt(lhs, rhs)
      [] op = "<=" -> OpLe(lhs, rhs)
      [] op = ">=" -> OpGe(lhs, rhs)

\* a call that returns a number or a truth value and no scalar
Answers(op, a, b, sd, n, truth) ==
    /\ objs' = objs
    /\ last' = [Call(op, "none", a, b, Zero, sd, 0) EXCEPT !.n = n,
                                                            !.truth = truth]

\* objs[a] op objs[b]
Compare(op, a, b) ==
    /\ Step
    /\ a \in Live /\ b \in Live
    /\ Answers(op, a, b, Zero, 0, Compared(op, objs[a], objs[b]))
    /\ UNCHANGED <<stddevs_, next_id_>>

\* stddev() taking the deviation of an id missing from the registry as 0
StddevCallSkipsMissing(a) ==
    /\ Step
    /\ a \in Live
    /\ LET known == [id \in DOMAIN objs[a].derivatives_ \cap DOMAIN stddevs_ |->
                        objs[a].derivatives_[id]]
           u == MkUdouble(objs[a].nominal_, known)
       IN /\ StddevInRange(u, stddevs_)
          /\ \E sd \in stddev(u, stddevs_) : Answers("stddev", a, 0, sd, 0, FALSE)
    /\ UNCHANGED <<stddevs_, next_id_>>

\* objs[a].stddev()
StddevCall(a) ==
    /\ Step
    /\ a \in Live
    /\ IF StddevThrows(objs[a], stddevs_)
       THEN Throws("stddev", "runtime_error", a, 0, Zero, Zero, 0)
       ELSE /\ StddevInRange(objs[a], stddevs_)
            /\ \E sd \in stddev(objs[a], stddevs_) :
                  Answers("stddev", a, 0, sd, 0, FALSE)
    /\ UNCHANGED <<stddevs_, next_id_>>

\* VariableRegistry::instance().get_stddev(id)
GetStddevCall(id) ==
    /\ Step
    /\ IF GetStddevThrows(stddevs_, id)
       THEN /\ objs' = objs
            /\ last' = [Call("get_stddev", "runtime_error", 0, 0, Zero, Zero, 0)
                           EXCEPT !.n = id]
       ELSE Answers("get_stddev", 0, 0, get_stddev(stddevs_, id), id, FALSE)
    /\ UNCHANGED <<stddevs_, next_id_>>

\* VariableRegistry::instance().size()
SizeCall ==
    /\ Step
    /\ Answers("size", 0, 0, Zero, RegistrySize(stddevs_), FALSE)
    /\ UNCHANGED <<stddevs_, next_id_>>

\* clear() that empties the map and keeps the counter
ClearKeepsCounter ==
    /\ Step
    /\ stddevs_' = EmptyMap
    /\ next_id_' = next_id_
    /\ Answers("clear", 0, 0, Zero, 0, FALSE)

\* VariableRegistry::instance().clear(), run without interleaving
Clear ==
    /\ Step
    /\ stddevs_' = EmptyMap
    /\ next_id_' = 1
    /\ Answers("clear", 0, 0, Zero, 0, FALSE)

\* The state after `udouble x(nx, 0.1); udouble y(ny, sy);` on a fresh
\* registry.
InitReset ==
    \E nx \in {FNeg(One), One, Two}, ny \in {One, Tenth}, sy \in {Zero, Fifth} :
        LET cx == Constructed(EmptyMap, 1, nx, Tenth)
            cy == Constructed(cx.reg, cx.next, ny, sy)
        IN /\ stddevs_ = cy.reg
           /\ next_id_ = cy.next
           /\ objs = Put(Put(EmptyMap, 1, cx.u), 2, cy.u)
           /\ steps = 0
           /\ NoCalls
           /\ last = NoCall

NextReset ==
    \/ Clear
    \/ \E n \in {One, Two}, sd \in {Zero, Fifth} : Construct(TmpSlot, n, sd)
    \/ \E id \in LookupIds : GetStddevCall(id)
    \/ SizeCall
    \/ \E a \in Slots : StddevCall(a)
    \/ \E op \in CmpOps, a \in Slots, b \in Slots : Compare(op, a, b)

SpecReset == InitReset /\ [][NextReset]_vars

\* ----------------------------------- elementary functions (umath)
\* the least exponent of a subnormal double
MinSubnormalExp == 0 - 1074

\* a nonzero result below half the least subnormal is rounded to 0.0
Underflow(a) ==
    IF ~IsZero(a) /\ TopExp(a) < MinSubnormalExp - 1 THEN Zero ELSE a

\* val * val
Sq(val) == Underflow(FMul(val, val))

\* The values of the <cmath> functions at the nominal values explored, as
\* <<m, e>> with a 24-bit significand; a call rounds them to the modelled
\* significand.  Keys are <<function, argument>>.
LibmTable ==
    <<"sin", <<0 - 1, 1>>>> :> <<0 - 15255479, 0 - 24>> @@
    <<"sin", <<0 - 1, 0>>>> :> <<0 - 3529385, 0 - 22>> @@
    <<"sin", <<0, 0>>>> :> <<0, 0>> @@
    <<"sin", <<1, 0 - 1001>>>> :> <<1, 0 - 1001>> @@
    <<"sin", <<1, 0 - 1>>>> :> <<4021713, 0 - 23>> @@
    <<"sin", <<1, 0>>>> :> <<3529385, 0 - 22>> @@
    <<"sin", <<1, 1>>>> :> <<15255479, 0 - 24>> @@
    <<"cos", <<0 - 1, 1>>>> :> <<0 - 13963571, 0 - 25>> @@
    <<"cos", <<0 - 1, 0>>>> :> <<141637, 0 - 18>> @@
    <<"cos", <<0, 0>>>> :> <<1, 0>> @@ <<"cos", <<1, 0 - 1001>>>> :> <<1, 0>> @@
    <<"cos", <<1, 0 - 1>>>> :> <<230053, 0 - 18>> @@
    <<"cos", <<1, 0>>>> :> <<141637, 0 - 18>> @@
    <<"cos", <<1, 1>>>> :> <<0 - 13963571, 0 - 25>> @@
    <<"tan", <<0 - 1, 1>>>> :> <<9164721, 0 - 22>> @@
    <<"tan", <<0 - 1, 0>>>> :> <<0 - 13064483, 0 - 23>> @@
    <<"tan", <<0, 0>>>> :> <<0, 0>> @@
    <<"tan", <<1, 0 - 1001>>>> :> <<1, 0 - 1001>> @@
    <<"tan", <<1, 0 - 1>>>> :> <<9165435, 0 - 24>> @@
    <<"tan", <<1, 0>>>> :> <<13064483, 0 - 23>> @@
    <<"tan", <<1, 1>>>> :> <<0 - 9164721, 0 - 22>> @@
    <<"asin", <<0 - 1, 0>>>> :> <<0 - 13176795, 0 - 23>> @@
    <<"asin", <<0, 0>>>> :> <<0, 0>> @@
    <<"asin", <<1, 0 - 1001>>>> :> <<1, 0 - 1001>> @@
    <<"asin", <<1, 0 - 1>>>> :> <<4392265, 0 - 23>> @@
    <<"asin", <<1, 0>>>> :> <<13176795, 0 - 23>> @@
    <<"acos", <<0 - 1, 0>>>> :> <<13176795, 0 - 22>> @@
    <<"acos", <<0, 0>>>> :> <<13176795, 0 - 23>> @@
    <<"acos", <<1, 0 - 1001>>>> :> <<13176795, 0 - 23>> @@
    <<"acos", <<1, 0 - 1>>>> :> <<4392265, 0 - 22>> @@
    <<"acos", <<1, 0>>>> :> <<0, 0>> @@
    <<"atan", <<0 - 1, 1>>>> :> <<0 - 9287437, 0 - 23>> @@
    <<"atan", <<0 - 1, 0>>>> :> <<0 - 13176795, 0 - 24>> @@
    <<"atan", <<0, 0>>>> :> <<0, 0>> @@
    <<"atan", <<1, 0 - 1001>>>> :> <<1, 0 - 1001>> @@
    <<"atan", <<1, 0 - 1>>>> :> <<1944679, 0 - 22>> @@
    <<"atan", <<1, 0>>>> :> <<13176795, 0 - 24>> @@
    <<"atan", <<1, 1>>>> :> <<9287437, 0 - 23>> @@
    <<"sinh", <<0 - 1, 1>>>> :> <<0 - 15212155, 0 - 22>> @@
    <<"sinh", <<0 - 1, 0>>>> :> <<0 - 4929151, 0 - 22>> @@
    <<"sinh", <<0, 0>>>> :> <<0, 0>> @@
    <<"sinh", <<1, 0 - 1001>>>> :> <<1, 0 - 1001>> @@
    <<"sinh", <<1, 0 - 1>>>> :> <<68301, 0 - 17>> @@
    <<"sinh", <<1, 0>>>> :> <<4929151, 0 - 22>> @@
    <<"sinh", <<1, 1>>>> :> <<15212155, 0 - 22>> @@
    <<"cosh", <<0 - 1, 1>>>> :> <<986237, 0 - 18>> @@
    <<"cosh", <<0 - 1, 0>>>> :> <<12944299, 0 - 23>> @@
    <<"cosh", <<0, 0>>>> :> <<1, 0>> @@
    <<"cosh", <<1, 0 - 1001>>>> :> <<1, 0>> @@
    <<"cosh", <<1, 0 - 1>>>> :> <<2364803, 0 - 21>> @@
    <<"cosh", <<1, 0>>>> :> <<12944299, 0 - 23>> @@
    <<"cosh", <<1, 1>>>> :> <<986237, 0 - 18>> @@
    <<"tanh", <<0 - 1, 1>>>> :> <<0 - 16173699, 0 - 24>> @@
    <<"tanh", <<0 - 1, 0>>>> :> <<0 - 6388715, 0 - 23>> @@
    <<"tanh", <<0, 0>>>> :> <<0, 0>> @@
    <<"tanh", <<1, 0 - 1001>>>> :> <<1, 0 - 1001>> @@
    <<"tanh", <<1, 0 - 1>>>> :> <<15506079, 0 - 25>> @@
    <<"tanh", <<1, 0>>>> :> <<6388715, 0 - 23>> @@
    <<"tanh", <<1, 1>>>> :> <<16173699, 0 - 24>> @@
    <<"asinh", <<0 - 1, 1>>>> :> <<0 - 3027523, 0 - 21>> @@
    <<"asinh", <<0 - 1, 0>>>> :> <<0 - 14786995, 0 - 24>> @@
    <<"asinh", <<0, 0>>>> :> <<0, 0>> @@
    <<"asinh", <<1, 0 - 1001>>>> :> <<1, 0 - 1001>> @@
    <<"asinh", <<1, 0 - 1>>>> :> <<16146789, 0 - 25>> @@
    <<"asinh", <<1, 0>>>> :> <<14786995, 0 - 24>> @@
    <<"asinh", <<1, 1>>>> :> <<3027523, 0 - 21>> @@
    <<"acosh", <<1, 0>>>> :> <<0, 0>> @@
    <<"acosh", <<1, 1>>>> :> <<2761861, 0 - 21>> @@
    <<"atanh", <<0, 0>>>> :> <<0, 0>> @@
    <<"atanh", <<1, 0 - 1001>>>> :> <<1, 0 - 1001>> @@
    <<"atanh", <<1, 0 - 1>>>> :> <<2303957, 0 - 22>> @@
    <<"exp", <<0 - 1, 1>>>> :> <<9082197, 0 - 26>> @@
    <<"exp", <<0 - 1, 0>>>> :> <<6171993, 0 - 24>> @@
    <<"exp", <<0, 0>>>> :> <<1, 0>> @@ <<"exp", <<1, 0 - 1001>>>> :> <<1, 0>> @@
    <<"exp", <<1, 0 - 1>>>> :> <<3457619, 0 - 21>> @@
    <<"exp", <<1, 0>>>> :> <<2850325, 0 - 20>> @@
    <<"exp", <<1, 1>>>> :> <<7747987, 0 - 20>> @@
    <<"log", <<1, 0 - 1001>>>> :> <<0 - 1420985, 0 - 11>> @@
    <<"log", <<1, 0 - 1>>>> :> <<0 - 1453635, 0 - 21>> @@
    <<"log", <<1, 0>>>> :> <<0, 0>> @@
    <<"log", <<1, 1>>>> :> <<1453635, 0 - 21>> @@
    <<"log10", <<1, 0 - 1001>>>> :> <<0 - 9874015, 0 - 15>> @@
    <<"log10", <<1, 0 - 1>>>> :> <<0 - 10100891, 0 - 25>> @@
    <<"log10", <<1, 0>>>> :> <<0, 0>> @@
    <<"log10", <<1, 1>>>> :> <<10100891, 0 - 25>> @@
    <<"log", <<5, 1>>>> :> <<4828871, 0 - 21>>

\* std::atan2(yv, xv), keys <<yv, xv>>
Atan2Table ==
    <<<<0 - 1, 1>>, <<0 - 1, 1>>>> :> <<0 - 2470649, 0 - 20>> @@
    <<<<0 - 1, 1>>, <<0 - 1, 0>>>> :> <<0 - 2133269, 0 - 20>> @@
    <<<<0 - 1, 1>>, <<0, 0>>>> :> <<0 - 13176795, 0 - 23>> @@
    <<<<0 - 1, 1>>, <<1, 0 - 1001>>>> :> <<0 - 13176795, 0 - 23>> @@
    <<<<0 - 1, 1>>, <<1, 0 - 1>>>> :> <<0 - 11121765, 0 - 23>> @@
    <<<<0 - 1, 1>>, <<1, 0>>>> :> <<0 - 9287437, 0 - 23>> @@
    <<<<0 - 1, 1>>, <<1, 1>>>> :> <<0 - 13176795, 0 - 24>> @@
    <<<<0 - 1, 0>>, <<0 - 1, 1>>>> :> <<0 - 2808029, 0 - 20>> @@
    <<<<0 - 1, 0>>, <<0 - 1, 0>>>> :> <<0 - 2470649, 0 - 20>> @@
    <<<<0 - 1, 0>>, <<0, 0>>>> :> <<0 - 13176795, 0 - 23>> @@
    <<<<0 - 1, 0>>, <<1, 0 - 1001>>>> :> <<0 - 13176795, 0 - 23>> @@
    <<<<0 - 1, 0>>, <<1, 0 - 1>>>> :> <<0 - 9287437, 0 - 23>> @@
    <<<<0 - 1, 0>>, <<1, 0>>>> :> <<0 - 13176795, 0 - 24>> @@
    <<<<0 - 1, 0>>, <<1, 1>>>> :> <<0 - 1944679, 0 - 22>> @@
    <<<<0, 0>>, <<0 - 1, 1>>>> :> <<13176795, 0 - 22>> @@
    <<<<0, 0>>, <<0 - 1, 0>>>> :> <<13176795, 0 - 22>> @@
    <<<<0, 0>>, <<0, 0>>>> :> <<0, 0>> @@
    <<<<0, 0>>, <<1, 0 - 1001>>>> :> <<0, 0>> @@
    <<<<0, 0>>, <<1, 0 - 1>>>> :> <<0, 0>> @@
    <<<<0, 0>>, <<1, 0>>>> :> <<0, 0>> @@ <<<<0, 0>>, <<1, 1>>>> :> <<0, 0>> @@
    <<<<1, 0 - 1001>>, <<0 - 1, 1>>>> :> <<13176795, 0 - 22>> @@
    <<<<1, 0 - 1001>>, <<0 - 1, 0>>>> :> <<13176795, 0 - 22>> @@
    <<<<1, 0 - 1001>>, <<0, 0>>>> :> <<13176795, 0 - 23>> @@
    <<<<1, 0 - 1001>>, <<1, 0 - 1001>>>> :> <<13176795, 0 - 24>> @@
    <<<<1, 0 - 1001>>, <<1, 0 - 1>>>> :> <<1, 0 - 1000>> @@
    <<<<1, 0 - 1001>>, <<1, 0>>>> :> <<1, 0 - 1001>> @@
    <<<<1, 0 - 1001>>, <<1, 1>>>> :> <<1, 0 - 1002>> @@
    <<<<1, 0 - 1>>, <<0 - 1, 1>>>> :> <<379665, 0 - 17>> @@
    <<<<1, 0 - 1>>, <<0 - 1, 0>>>> :> <<2808029, 0 - 20>> @@
    <<<<1, 0 - 1>>, <<0, 0>>>> :> <<13176795, 0 - 23>> @@
    <<<<1, 0 - 1>>, <<1, 0 - 1001>>>> :> <<13176795, 0 - 23>> @@
    <<<<1, 0 - 1>>, <<1, 0 - 1>>>> :> <<13176795, 0 - 24>> @@
    <<<<1, 0 - 1>>, <<1, 0>>>> :> <<1944679, 0 - 22>> @@
    <<<<1, 0 - 1>>, <<1, 1>>>> :> <<1027515, 0 - 22>> @@
    <<<<1, 0>>, <<0 - 1, 1>>>> :> <<2808029, 0 - 20>> @@
    <<<<1, 0>>, <<0 - 1, 0>>>> :> <<2470649, 0 - 20>> @@
    <<<<1, 0>>, <<0, 0>>>> :> <<13176795, 0 - 23>> @@
    <<<<1, 0>>, <<1, 0 - 1001>>>> :> <<13176795, 0 - 23>> @@
    <<<<1, 0>>, <<1, 0 - 1>>>> :> <<9287437, 0 - 23>> @@
    <<<<1, 0>>, <<1, 0>>>> :> <<13176795, 0 - 24>> @@
    <<<<1, 0>>, <<1, 1>>>> :> <<1944679, 0 - 22>> @@
    <<<<1, 1>>, <<0 - 1, 1>>>> :> <<2470649, 0 - 20>> @@
    <<<<1, 1>>, <<0 - 1, 0>>>> :> <<2133269, 0 - 20>> @@
    <<<<1, 1>>, <<0, 0>>>> :> <<13176795, 0 - 23>> @@
    <<<<1, 1>>, <<1, 0 - 1001>>>> :> <<13176795, 0 - 23>> @@
    <<<<1, 1>>, <<1, 0 - 1>>>> :> <<11121765, 0 - 23>> @@
    <<<<1, 1>>, <<1, 0>>>> :> <<9287437, 0 - 23>> @@
    <<<<1, 1>>, <<1, 1>>>> :> <<13176795, 0 - 24>>

\* std::pow(base, exp), keys <<base, exp>>
PowTable ==
    <<<<1, 0 - 1001>>, <<0 - 1, 0>>>> :> <<1, 1001>> @@
    <<<<1, 0 - 1001>>, <<0, 0>>>> :> <<1, 0>> @@
    <<<<1, 0 - 1001>>, <<1, 0 - 1001>>>> :> <<1, 0>> @@
    <<<<1, 0 - 1001>>, <<1, 0 - 1>>>> :> <<11863283, 0 - 524>> @@
    <<<<1, 0 - 1001>>, <<1, 0>>>> :> <<1, 0 - 1001>> @@
    <<<<1, 0 - 1001>>, <<1, 1>>>> :> <<0, 0>> @@
    <<<<1, 0 - 1>>, <<0 - 1, 1>>>> :> <<1, 2>> @@
    <<<<1, 0 - 1>>, <<0 - 1, 0>>>> :> <<1, 1>> @@
    <<<<1, 0 - 1>>, <<0, 0>>>> :> <<1, 0>> @@
    <<<<1, 0 - 1>>, <<1, 0 - 1001>>>> :> <<1, 0>> @@
    <<<<1, 0 - 1>>, <<1, 0 - 1>>>> :> <<11863283, 0 - 24>> @@
    <<<<1, 0 - 1>>, <<1, 0>>>> :> <<1, 0 - 1>> @@
    <<<<1, 0 - 1>>, <<1, 1>>>> :> <<1, 0 - 2>> @@
    <<<<1, 0>>, <<0 - 1, 1>>>> :> <<1, 0>> @@
    <<<<1, 0>>, <<0 - 1, 0>>>> :> <<1, 0>> @@
    <<<<1, 0>>, <<0, 0>>>> :> <<1, 0>> @@
    <<<<1, 0>>, <<1, 0 - 1001>>>> :> <<1, 0>> @@
    <<<<1, 0>>, <<1, 0 - 1>>>> :> <<1, 0>> @@
    <<<<1, 0>>, <<1, 0>>>> :> <<1, 0>> @@ <<<<1, 0>>, <<1, 1>>>> :> <<1, 0>> @@
    <<<<1, 1>>, <<0 - 1, 1>>>> :> <<1, 0 - 2>> @@
    <<<<1, 1>>, <<0 - 1, 0>>>> :> <<1, 0 - 1>> @@
    <<<<1, 1>>, <<0, 0>>>> :> <<1, 0>> @@
    <<<<1, 1>>, <<1, 0 - 1001>>>> :> <<1, 0>> @@
    <<<<1, 1>>, <<1, 0 - 1>>>> :> <<11863283, 0 - 23>> @@
    <<<<1, 1>>, <<1, 0>>>> :> <<1, 1>> @@ <<<<1, 1>>, <<1, 1>>>> :> <<1, 2>>

Known(f, val) == <<f, val>> \in DOMAIN LibmTable

Libm(f, val) == Round(LibmTable[<<f, val>>][1], LibmTable[<<f, val>>][2])

StdAtan2(yv, xv) == Round(Atan2Table[<<yv, xv>>][1], Atan2Table[<<yv, xv>>][2])

StdPow(base, expo) == Round(PowTable[<<base, expo>>][1], PowTable[<<base, expo>>][2])

\* sqrt(S * 2^E) for a positive integer S, rounded once
SqrtScaled(S, E) ==
    LET need == 2 * MantBits + 4 - BitLen(S)
        k0 == IF need > 0 THEN need ELSE 0
        k == k0 + ((E - k0) % 2)
        n == S * (2 ^ k)
        r == ISqrt(n)
        sticky == IF r * r = n THEN 0 ELSE 1
    IN RoundMag(2 * r + sticky, ((E - k) \div 2) - 1)

\* std::hypot(xv, yv): sqrt(xv^2 + yv^2) without intermediate overflow or
\* underflow, rounded once
StdHypot(xv, yv) ==
    IF IsZero(xv) THEN FAbs(yv)
    ELSE IF IsZero(yv) THEN FAbs(xv)
    ELSE IF 2 * (TopExp(xv) - TopExp(yv)) >= MantBits + 2 THEN FAbs(xv)
    ELSE IF 2 * (TopExp(yv) - TopExp(xv)) >= MantBits + 2 THEN FAbs(yv)
    ELSE LET e == IF xv[2] < yv[2] THEN xv[2] ELSE yv[2]
             X == IAbs(xv[1]) * (2 ^ (xv[2] - e))
             Y == IAbs(yv[1]) * (2 ^ (yv[2] - e))
         IN SqrtScaled(X * X + Y * Y, 2 * e)

\* the derivative applied to the entry of the least id alone
apply_chain_rule_one_entry(input_derivs, derivative) ==
    prune_derivatives(
        [id \in DOMAIN input_derivs |->
            IF \A other \in DOMAIN input_derivs : id <= other
            THEN FMul(derivative, input_derivs[id])
            ELSE input_derivs[id]])

\* new_derivs[id] = derivative * deriv, kept when |new_deriv| >= PRUNE_THRESHOLD
apply_chain_rule(input_derivs, derivative) ==
    LET new_derivs == SetScaled(input_derivs, derivative)
    IN [id \in {i \in DOMAIN new_derivs : ~Pruned(new_derivs[i])} |-> new_derivs[id]]

sin(x) ==
    MkUdouble(Libm("sin", x.nominal_),
              apply_chain_rule(x.derivatives_, Libm("cos", x.nominal_)))

cos(x) ==
    MkUdouble(Libm("cos", x.nominal_),
              apply_chain_rule(x.derivatives_, FNeg(Libm("sin", x.nominal_))))

tan(x) ==
    LET cos_x == Libm("cos", x.nominal_)
    IN MkUdouble(Libm("tan", x.nominal_),
                 apply_chain_rule(x.derivatives_, FDiv(One, FMul(cos_x, cos_x))))

\* std::sqrt(1.0 - val * val), the denominator of asin and acos
one_minus_sq_root(val) == FSqrt(FSub(One, Sq(val)))

asin(x) ==
    MkUdouble(Libm("asin", x.nominal_),
              apply_chain_rule(x.derivatives_,
                               FDiv(One, one_minus_sq_root(x.nominal_))))

acos(x) ==
    MkUdouble(Libm("acos", x.nominal_),
              apply_chain_rule(x.derivatives_,
                               FDiv(FNeg(One), one_minus_sq_root(x.nominal_))))

atan(x) ==
    MkUdouble(Libm("atan", x.nominal_),
              apply_chain_rule(x.derivatives_,
                               FDiv(One, FAdd(One, Sq(x.nominal_)))))

sinh(x) ==
    MkUdouble(Libm("sinh", x.nominal_),
              apply_chain_rule(x.derivatives_, Libm("cosh", x.nominal_)))

cosh(x) ==
    MkUdouble(Libm("cosh", x.nominal_),
              apply_chain_rule(x.derivatives_, Libm("sinh", x.nominal_)))

tanh(x) ==
    LET cosh_x == Libm("cosh", x.nominal_)
    IN MkUdouble(Libm("tanh", x.nominal_),
                 apply_chain_rule(x.derivatives_, FDiv(One, FMul(cosh_x, cosh_x))))

asinh(x) ==
    MkUdouble(Libm("asinh", x.nominal_),
              apply_chain_rule(x.derivatives_,
                               FDiv(One, FSqrt(FAdd(One, Sq(x.nominal_))))))

acosh(x) ==
    MkUdouble(Libm("acosh", x.nominal_),
              apply_chain_rule(x.derivatives_,
                               FDiv(One, FSqrt(FSub(Sq(x.nominal_), One)))))

atanh(x) ==
    MkUdouble(Libm("atanh", x.nominal_),
              apply_chain_rule(x.derivatives_,
                               FDiv(One, FSub(One, Sq(x.nominal_)))))

exp(x) ==
    LET new_nominal == Libm("exp", x.nominal_)
    IN MkUdouble(new_nominal, apply_chain_rule(x.derivatives_, new_nominal))

log(x) ==
    MkUdouble(Libm("log", x.nominal_),
              apply_chain_rule(x.derivatives_, FDiv(One, x.nominal_)))

log10(x) ==
    MkUdouble(Libm("log10", x.nominal_),
              apply_chain_rule(x.derivatives_,
                               FDiv(One, FMul(x.nominal_, Libm("log", Ten)))))

sqrt(x) ==
    LET new_nominal == FSqrt(x.nominal_)
    IN MkUdouble(new_nominal,
                 apply_chain_rule(x.derivatives_, FDiv(One, FMul(Two, new_nominal))))

\* (val >= 0.0) ? 1.0 : -1.0
abs_derivative_one_at_zero(val) ==
    IF FLess(val, Zero) THEN FNeg(One) ELSE One

\* (val > 0.0) ? 1.0 : ((val < 0.0) ? -1.0 : 0.0)
abs_derivative(val) ==
    IF FLess(Zero, val) THEN One
    ELSE IF FLess(val, Zero) THEN FNeg(One) ELSE Zero

abs(x) ==
    MkUdouble(FAbs(x.nominal_),
              apply_chain_rule(x.derivatives_, abs_derivative(x.nominal_)))

\* the one-argument functions, by name
UnaryNames ==
    {"sin", "cos", "tan", "asin", "acos", "atan", "sinh", "cosh", "tanh",
     "asinh", "acosh", "atanh", "exp", "log", "log10", "sqrt", "abs"}

\* the <cmath> functions that f(x) evaluates at its argument unless it has
\* thrown before
Reads(f) ==
    CASE f \in {"sin", "cos"} -> {"sin", "cos"}
      [] f = "tan" -> {"cos", "tan"}
      [] f \in {"sinh", "cosh"} -> {"sinh", "cosh"}
      [] f = "tanh" -> {"cosh", "tanh"}
      [] f \in {"sqrt", "abs"} -> {}
      [] OTHER -> {f}

Tabulated(f, val) == \A g \in Reads(f) : Known(g, val)

\* whether f(x) throws std::invalid_argument: the tests of the nominal value
\* val and of the denominator of the derivative, in the order of the code
Raises(f, x) ==
    LET val == x.nominal_ IN
    CASE f = "tan" -> Known("cos", val) /\ IsZero(Libm("cos", val))
      [] f \in {"asin", "acos"} ->
            \/ FLess(val, FNeg(One)) \/ FLess(One, val)
            \/ IsZero(one_minus_sq_root(val))
      [] f = "acosh" ->
            \/ FLess(val, One)
            \/ IsZero(FSqrt(FSub(Sq(val), One)))
      [] f = "atanh" -> FLessEq(val, FNeg(One)) \/ FLessEq(One, val)
      [] f \in {"log", "log10", "sqrt"} -> FLessEq(val, Zero)
      [] OTHER -> FALSE

\* the scalar f(x) returns
Elementary(f, x) ==
    CASE f = "sin" -> sin(x)
      [] f = "cos" -> cos(x)
      [] f = "tan" -> tan(x)
      [] f = "asin" -> asin(x)
      [] f = "acos" -> acos(x)
      [] f = "atan" -> atan(x)
      [] f = "sinh" -> sinh(x)
      [] f = "cosh" -> cosh(x)
      [] f = "tanh" -> tanh(x)
      [] f = "asinh" -> asinh(x)
      [] f = "acosh" -> acosh(x)
      [] f = "atanh" -> atanh(x)
      [] f = "exp" -> exp(x)
      [] f = "log" -> log(x)
      [] f = "log10" -> log10(x)
      [] f = "sqrt" -> sqrt(x)
      [] f = "abs" -> abs(x)

\* xv * xv + yv * yv
atan2_denom(y, x) == FAdd(Sq(x.nominal_), Sq(y.nominal_))

\* denom == 0.0
atan2_throws(y, x) == IsZero(atan2_denom(y, x))

\* new_derivs of atan2 before pruning
atan2_derivs(y, x) ==
    LET denom == atan2_denom(y, x)
        df_dy == FDiv(x.nominal_, denom)
        df_dx == FDiv(FNeg(y.nominal_), denom)
    IN AddScaled(AddScaled(EmptyMap, y.derivatives_, df_dy), x.derivatives_, df_dx)

atan2(y, x) ==
    MkUdouble(StdAtan2(y.nominal_, x.nominal_),
              prune_derivatives(atan2_derivs(y, x)))

\* new_derivs of hypot: at the origin the two maps are added entry by entry
hypot_derivs(x, y) ==
    LET new_nominal == StdHypot(x.nominal_, y.nominal_)
    IN IF IsZero(new_nominal)
       THEN AddEach(AddEach(EmptyMap, x.derivatives_), y.derivatives_)
       ELSE AddScaled(AddScaled(EmptyMap, x.derivatives_,
                                FDiv(x.nominal_, new_nominal)),
                      y.derivatives_, FDiv(y.nominal_, new_nominal))

\* the origin branch returns without pruning
hypot(x, y) ==
    LET new_nominal == StdHypot(x.nominal_, y.nominal_)
    IN IF IsZero(new_nominal)
       THEN MkUdouble(Zero, hypot_derivs(x, y))
       ELSE MkUdouble(new_nominal, prune_derivatives(hypot_derivs(x, y)))

\* base.nominal_ <= 0.0
pow_throws(base, expo) == FLessEq(base.nominal_, Zero)

\* the coefficients of pow: base |-> new_nominal * exp.nominal_ / base.nominal_,
\* exp |-> new_nominal * std::log(base.nominal_)
pow_coefs(base, expo) ==
    LET new_nominal == StdPow(base.nominal_, expo.nominal_)
    IN [base |-> FDiv(FMul(new_nominal, expo.nominal_), base.nominal_),
        exp |-> FMul(new_nominal, Libm("log", base.nominal_))]

\* new_derivs of pow before pruning
pow_derivs(base, expo) ==
    AddScaled(AddScaled(EmptyMap, base.derivatives_, pow_coefs(base, expo).base),
              expo.derivatives_, pow_coefs(base, expo).exp)

pow(base, expo) ==
    MkUdouble(StdPow(base.nominal_, expo.nominal_),
              prune_derivatives(pow_derivs(base, expo)))

\* unary plus returns a copy
OpPlus(x) == x

\* unary minus negating the nominal value alone
OpNegKeepsMap(x) == MkUdouble(FNeg(x.nominal_), x.derivatives_)

\* unary minus negates the nominal value and every derivative
OpNeg(x) ==
    MkUdouble(FNeg(x.nominal_),
              [id \in DOMAIN x.derivatives_ |-> FNeg(x.derivatives_[id])])

\* every product k * src[id] is a normal double or zero
ScaledInRange(src, k) == \A id \in DOMAIN src : InRange(FMul(k, src[id]))

\* objs[dst] = f(objs[a])
ElementaryCall(f, a, dst) ==
    /\ Step
    /\ a \in Live
    /\ IF Raises(f, objs[a])
       THEN Throws(f, "invalid_argument", a, 0, Zero, Zero, dst)
       ELSE /\ Tabulated(f, objs[a].nominal_)
            /\ LET result == Elementary(f, objs[a])
               IN /\ ResultInRange(result.nominal_, result.derivatives_)
                  /\ Returns(f, a, 0, Zero, Zero, dst, result)
    /\ UNCHANGED <<stddevs_, next_id_>>

\* objs[dst] = atan2(objs[a], objs[b])
Atan2Call(a, b, dst) ==
    /\ Step
    /\ a \in Live /\ b \in Live
    /\ <<objs[a].nominal_, objs[b].nominal_>> \in DOMAIN Atan2Table
    /\ InRange(atan2_denom(objs[a], objs[b]))
    /\ IF atan2_throws(objs[a], objs[b])
       THEN Throws("atan2", "invalid_argument", a, b, Zero, Zero, dst)
       ELSE /\ ScaledInRange(objs[a].derivatives_,
                             FDiv(objs[b].nominal_, atan2_denom(objs[a], objs[b])))
            /\ ScaledInRange(objs[b].derivatives_,
                             FDiv(FNeg(objs[a].nominal_), atan2_denom(objs[a], objs[b])))
            /\ ResultInRange(atan2(objs[a], objs[b]).nominal_,
                             atan2_derivs(objs[a], objs[b]))
            /\ Returns("atan2", a, b, Zero, Zero, dst, atan2(objs[a], objs[b]))
    /\ UNCHANGED <<stddevs_, next_id_>>

\* objs[dst] = hypot(objs[a], objs[b])
HypotCall(a, b, dst) ==
    /\ Step
    /\ a \in Live /\ b \in Live
    /\ ResultInRange(StdHypot(objs[a].nominal_, objs[b].nominal_),
                     hypot_derivs(objs[a], objs[b]))
    /\ Returns("hypot", a, b, Zero, Zero, dst, hypot(objs[a], objs[b]))
    /\ UNCHANGED <<stddevs_, next_id_>>

\* objs[dst] = pow(objs[a], objs[b])
PowCall(a, b, dst) ==
    /\ Step
    /\ a \in Live /\ b \in Live
    /\ IF pow_throws(objs[a], objs[b])
       THEN Throws("pow", "runtime_error", a, b, Zero, Zero, dst)
       ELSE /\ <<objs[a].nominal_, objs[b].nominal_>> \in DOMAIN PowTable
            /\ Known("log", objs[a].nominal_)
            /\ InRange(pow_coefs(objs[a], objs[b]).base)
            /\ InRange(pow_coefs(objs[a], objs[b]).exp)
            /\ ScaledInRange(objs[a].derivatives_, pow_coefs(objs[a], objs[b]).base)
            /\ ScaledInRange(objs[b].derivatives_, pow_coefs(objs[a], objs[b]).exp)
            /\ ResultInRange(pow(objs[a], objs[b]).nominal_,
                             pow_derivs(objs[a], objs[b]))
            /\ Returns("pow", a, b, Zero, Zero, dst, pow(objs[a], objs[b]))
    /\ UNCHANGED <<stddevs_, next_id_>>

\* objs[dst] = +objs[a]
UnaryPlus(a, dst) ==
    /\ Step
    /\ a \in Live
    /\ Returns("+x", a, 0, Zero, Zero, dst, OpPlus(objs[a]))
    /\ UNCHANGED <<stddevs_, next_id_>>

\* objs[dst] = -objs[a]
Negate(a, dst) ==
    /\ Step
    /\ a \in Live
    /\ Returns("-x", a, 0, Zero, Zero, dst, OpNeg(objs[a]))
    /\ UNCHANGED <<stddevs_, next_id_>>

\* The state after `udouble x(nx, sx); udouble y(ny, 0.2);` on a fresh
\* registry.
InitMath ==
    \E nx \in MathNominals, sx \in {Zero, Tenth}, ny \in {Zero, Two} :
        LET cx == Constructed(EmptyMap, 1, nx, sx)
            cy == Constructed(cx.reg, cx.next, ny, Fifth)
        IN /\ stddevs_ = cy.reg
           /\ next_id_ = cy.next
           /\ objs = Put(Put(EmptyMap, 1, cx.u), 2, cy.u)
           /\ steps = 0
           /\ NoCalls
           /\ last = NoCall

\* a call after the first takes the previous result as an argument
Chained(a, b) == TmpSlot \in Live => TmpSlot \in {a, b}

NextMath ==
    \/ \E f \in UnaryNames, a \in Slots :
          steps < MaxOps /\ Chained(a, a) /\ ElementaryCall(f, a, TmpSlot)
    \/ \E a \in Slots, b \in Slots :
          steps < MaxOps /\ Chained(a, b) /\ Atan2Call(a, b, TmpSlot)
    \/ \E a \in Slots, b \in Slots :
          steps < MaxOps /\ Chained(a, b) /\ HypotCall(a, b, TmpSlot)
    \/ \E a \in Slots, b \in Slots :
          steps < MaxOps /\ Chained(a, b) /\ PowCall(a, b, TmpSlot)
    \/ \E a \in Slots : steps < MaxOps /\ Chained(a, a) /\ UnaryPlus(a, TmpSlot)
    \/ \E a \in Slots : steps < MaxOps /\ Chained(a, a) /\ Negate(a, TmpSlot)

SpecMath == InitMath /\ [][NextMath]_vars

\* ------------------------------------ every operation on x and y
\* objs[a].num_variables()
NumVariablesCall(a) ==
    /\ Step
    /\ a \in Live
    /\ Answers("num_variables", a, 0, Zero, num_variables(objs[a]), FALSE)
    /\ UNCHANGED <<stddevs_, next_id_>>

\* objs[a].is_atomic()
IsAtomicCall(a) ==
    /\ Step
    /\ a \in Live
    /\ Answers("is_atomic", a, 0, Zero, 0, is_atomic(objs[a]))
    /\ UNCHANGED <<stddevs_, next_id_>>

\* the destinations of a binary operator: a fresh scalar, or the left operand
\* for the compound assignment
Dsts(a) == {a, TmpSlot}

NextFrame ==
    \/ steps < MaxFrame /\ Clear
    \/ \E sd \in {Zero, Fifth} : steps < MaxFrame /\ Construct(TmpSlot, One, sd)
    \/ \E a \in VarSlots : steps < MaxFrame /\ IndependentCopy(a, TmpSlot)
    \/ \E s \in VarSlots, sd \in {Zero, Fifth} : steps < MaxFrame /\ SetStddev(s, sd)
    \/ \E a \in VarSlots, b \in VarSlots : \E dst \in Dsts(a) :
          steps < MaxFrame /\ Add(a, b, dst)
    \/ \E a \in VarSlots, b \in VarSlots : \E dst \in Dsts(a) :
          steps < MaxFrame /\ Sub(a, b, dst)
    \/ \E a \in VarSlots, b \in VarSlots : \E dst \in Dsts(a) :
          steps < MaxFrame /\ Mul(a, b, dst)
    \/ \E a \in VarSlots, b \in VarSlots : \E dst \in Dsts(a) :
          steps < MaxFrame /\ Div(a, b, dst)
    \/ \E a \in VarSlots : \E dst \in Dsts(a) : steps < MaxFrame /\ MulDouble(a, Two, dst)
    \/ \E a \in VarSlots : \E dst \in Dsts(a) : steps < MaxFrame /\ DivDouble(a, Two, dst)
    \/ \E a \in VarSlots : steps < MaxFrame /\ UnaryPlus(a, TmpSlot)
    \/ \E a \in VarSlots : steps < MaxFrame /\ Negate(a, TmpSlot)
    \/ \E a \in VarSlots, b \in VarSlots : steps < MaxFrame /\ PowCall(a, b, TmpSlot)
    \/ \E a \in VarSlots, b \in VarSlots : steps < MaxFrame /\ Atan2Call(a, b, TmpSlot)
    \/ \E a \in VarSlots, b \in VarSlots : steps < MaxFrame /\ HypotCall(a, b, TmpSlot)
    \/ \E f \in UnaryNames, a \in VarSlots :
          steps < MaxFrame /\ ElementaryCall(f, a, TmpSlot)
    \/ \E op \in CmpOps, a \in VarSlots, b \in VarSlots :
          steps < MaxFrame /\ Compare(op, a, b)
    \/ \E a \in VarSlots : steps < MaxFrame /\ StddevCall(a)
    \/ \E a \in VarSlots : steps < MaxFrame /\ NumVariablesCall(a)
    \/ \E a \in VarSlots : steps < MaxFrame /\ IsAtomicCall(a)
    \/ steps < MaxFrame /\ SizeCall
    \/ \E id \in LookupIds : steps < MaxFrame /\ GetStddevCall(id)

SpecFrame == InitReset /\ [][NextFrame]_vars

\* ------------------------------- concurrent callers of the registry
\* Each thread makes one call at a time; a call runs in the steps between
\* which another thread can run.  steps counts the calls started.

InitReg ==
    /\ stddevs_ = EmptyMap
    /\ next_id_ = 1
    /\ objs = EmptyMap
    /\ steps = 0
    /\ NoCalls
    /\ last = NoCall

At(t, pc) == threads[t].pc = pc
Goto(t, pc) == threads' = [threads EXCEPT ![t].pc = pc]

\* ids returned by the registrations that have returned
ReturnedIds == {issued[i].id : i \in DOMAIN issued}

StartCall(t, op, arg) ==
    /\ At(t, "idle")
    /\ steps < MaxCalls
    /\ steps' = steps + 1
    /\ threads' = [threads EXCEPT ![t] =
          [pc |-> op, op |-> op, arg |-> arg, id |-> 0, ret |-> Zero,
           threw |-> "none", seen |-> ReturnedIds]]
    /\ UNCHANGED <<stddevs_, next_id_, objs, last, mutex_, issued>>

\* std::unique_lock lock(mutex_)
LockUnique(t) == mutex_.writer = 0 /\ mutex_.readers = {}
\* std::shared_lock lock(mutex_)
LockShared(t) == mutex_.writer = 0

\* register_variable(stddev) is called
CallRegister(t, sd) == StartCall(t, "register_variable", sd)

\* uint64_t id = next_id_.fetch_add(1, relaxed)
RegFetchAdd(t) ==
    /\ At(t, "register_variable")
    /\ threads' = [threads EXCEPT ![t].id = RegisteredId(next_id_),
                                  ![t].pc = "reg_lock"]
    /\ next_id_' = RegisteredNext(next_id_)
    /\ UNCHANGED <<stddevs_, objs, last, steps, mutex_, issued>>

\* the exclusive lock taken although the mutex is held
RegLockNoWait(t) ==
    /\ At(t, "reg_lock")
    /\ mutex_' = [mutex_ EXCEPT !.writer = t]
    /\ Goto(t, "reg_insert")
    /\ UNCHANGED <<stddevs_, next_id_, objs, last, steps, issued>>

RegLock(t) ==
    /\ At(t, "reg_lock")
    /\ LockUnique(t)
    /\ mutex_' = [mutex_ EXCEPT !.writer = t]
    /\ Goto(t, "reg_insert")
    /\ UNCHANGED <<stddevs_, next_id_, objs, last, steps, issued>>

\* stddevs_[id]: operator[] inserts a value-initialised entry if id is absent
RegInsert(t) ==
    /\ At(t, "reg_insert")
    /\ stddevs_' = IF threads[t].id \in DOMAIN stddevs_ THEN stddevs_
                   ELSE Put(stddevs_, threads[t].id, Zero)
    /\ Goto(t, "reg_assign")
    /\ UNCHANGED <<next_id_, objs, last, steps, mutex_, issued>>

\* the entry is left as operator[] made it
RegAssignSkipped(t) ==
    /\ At(t, "reg_assign")
    /\ Goto(t, "reg_return")
    /\ UNCHANGED <<stddevs_, next_id_, objs, last, steps, mutex_, issued>>

\* ... = stddev
RegAssign(t) ==
    /\ At(t, "reg_assign")
    /\ stddevs_' = Put(stddevs_, threads[t].id, threads[t].arg)
    /\ Goto(t, "reg_return")
    /\ UNCHANGED <<next_id_, objs, last, steps, mutex_, issued>>

\* return id; the lock is released
RegReturn(t) ==
    /\ At(t, "reg_return")
    /\ mutex_' = [mutex_ EXCEPT !.writer = 0]
    /\ threads' = [threads EXCEPT ![t].pc = "idle"]
    /\ issued' = Append(issued, [id |-> threads[t].id, stddev |-> threads[t].arg,
                           thread |-> t])
    /\ UNCHANGED <<stddevs_, next_id_, objs, last, steps>>

\* get_stddev(id) is called
CallGetStddev(t, id) == StartCall(t, "get_stddev", id)

GetLock(t) ==
    /\ At(t, "get_stddev")
    /\ LockShared(t)
    /\ mutex_' = [mutex_ EXCEPT !.readers = @ \cup {t}]
    /\ Goto(t, "get_find")
    /\ UNCHANGED <<stddevs_, next_id_, objs, last, steps, issued>>

\* stddevs_.find(id); throw if it is end(), else it->second
GetFind(t) ==
    /\ At(t, "get_find")
    /\ threads' =
          IF GetStddevThrows(stddevs_, threads[t].arg)
          THEN [threads EXCEPT ![t].threw = "runtime_error",
                               ![t].pc = "get_return"]
          ELSE [threads EXCEPT ![t].ret = get_stddev(stddevs_, threads[t].arg),
                               ![t].pc = "get_return"]
    /\ UNCHANGED <<stddevs_, next_id_, objs, last, steps, mutex_, issued>>

GetReturn(t) ==
    /\ At(t, "get_return")
    /\ mutex_' = [mutex_ EXCEPT !.readers = @ \ {t}]
    /\ Goto(t, "idle")
    /\ UNCHANGED <<stddevs_, next_id_, objs, last, steps, issued>>

\* size() is called
CallSize(t) == StartCall(t, "size", 0)

SizeLock(t) ==
    /\ At(t, "size")
    /\ LockShared(t)
    /\ mutex_' = [mutex_ EXCEPT !.readers = @ \cup {t}]
    /\ Goto(t, "size_read")
    /\ UNCHANGED <<stddevs_, next_id_, objs, last, steps, issued>>

SizeRead(t) ==
    /\ At(t, "size_read")
    /\ threads' = [threads EXCEPT ![t].ret = RegistrySize(stddevs_),
                                  ![t].pc = "size_return"]
    /\ UNCHANGED <<stddevs_, next_id_, objs, last, steps, mutex_, issued>>

SizeReturn(t) ==
    /\ At(t, "size_return")
    /\ mutex_' = [mutex_ EXCEPT !.readers = @ \ {t}]
    /\ Goto(t, "idle")
    /\ UNCHANGED <<stddevs_, next_id_, objs, last, steps, issued>>

NextReg ==
    \/ \E t \in Threads, sd \in RegSigmas : CallRegister(t, sd)
    \/ \E t \in Threads : RegFetchAdd(t)
    \/ \E t \in Threads : RegLock(t)
    \/ \E t \in Threads : RegInsert(t)
    \/ \E t \in Threads : RegAssign(t)
    \/ \E t \in Threads : RegReturn(t)
    \/ \E t \in Threads, id \in LookupIds : CallGetStddev(t, id)
    \/ \E t \in Threads : GetLock(t)
    \/ \E t \in Threads : GetFind(t)
    \/ \E t \in Threads : GetReturn(t)
    \/ \E t \in Threads : CallSize(t)
    \/ \E t \in Threads : SizeLock(t)
    \/ \E t \in Threads : SizeRead(t)
    \/ \E t \in Threads : SizeReturn(t)

SpecReg == InitReg /\ [][NextReg]_vars

\* ------------------------------------------------------------ claims
Returned == last.threw = "none"
Result == objs[last.dst]
Lhs == last.pre[last.a]
Rhs == last.pre[last.b]
IdOf(u) == CHOOSE id \in DOMAIN u.derivatives_ : TRUE
\* a scalar as udouble(v, sigma) leaves it, sigma >= 0
AsConstructed(u) == u.derivatives_ = EmptyMap \/ is_atomic(u)
Independent(u, w) ==
    /\ is_atomic(u) /\ is_atomic(w)
    /\ IdOf(u) # IdOf(w)
    /\ IdOf(u) \in DOMAIN stddevs_ /\ IdOf(w) \in DOMAIN stddevs_

\* C1: for x as constructed by udouble(v, sigma), sigma >= 0, x - x has
\* nominal value 0, an empty derivative map and stddev() 0.
C1_SelfSubtraction ==
    (last.op = "-" /\ last.a = last.b /\ AsConstructed(Lhs)) =>
        /\ Result.nominal_ = Zero
        /\ num_variables(Result) = 0
        /\ stddev(Result, stddevs_) = {Zero}

C1_Witness ==
    /\ last.op = "-" /\ last.a = last.b
    /\ is_atomic(Lhs) /\ ~IsZero(Lhs.nominal_)
    /\ num_variables(Result) = 0

\* C2: a scalar just constructed with sigma > 0 has one derivative entry and
\* is atomic; for atomic x, x + x has one entry, on x's id, with value 2, its
\* stddev() is 2 * sigma and it is not atomic.
C2_AtomicAndSelfAddition ==
    /\ (last.op = "udouble(double,double)" /\ Returned /\ FLess(Zero, last.sd)) =>
          (num_variables(Result) = 1 /\ is_atomic(Result))
    /\ (last.op = "+" /\ last.a = last.b /\ is_atomic(Lhs)) =>
          /\ DOMAIN Result.derivatives_ = DOMAIN Lhs.derivatives_
          /\ Result.derivatives_[IdOf(Lhs)] = Two
          /\ stddev(Result, stddevs_) = {FMul(Two, stddevs_[IdOf(Lhs)])}
          /\ ~is_atomic(Result)

C2_Witness ==
    /\ last.op = "+" /\ last.a = last.b /\ is_atomic(Lhs)
    /\ last.pre_stddevs[IdOf(Lhs)] = Tenth
    /\ num_variables(Result) = 1

\* C3: for independent atomic x and y, x + y and x - y have two derivative
\* entries and variance sx^2 + sy^2; adding a constant to an atomic x leaves
\* its stddev() unchanged.
C3_IndependentSum ==
    /\ (last.op \in {"+", "-"} /\ Independent(Lhs, Rhs)) =>
          /\ num_variables(Result) = 2
          /\ Variances(Result, stddevs_) =
                {FAdd(FMul(stddevs_[IdOf(Lhs)], stddevs_[IdOf(Lhs)]),
                      FMul(stddevs_[IdOf(Rhs)], stddevs_[IdOf(Rhs)]))}
          /\ stddev(Result, stddevs_) =
                {FSqrt(FAdd(FMul(stddevs_[IdOf(Lhs)], stddevs_[IdOf(Lhs)]),
                            FMul(stddevs_[IdOf(Rhs)], stddevs_[IdOf(Rhs)])))}
    /\ (last.op = "+" /\ is_atomic(Lhs) /\ Rhs.derivatives_ = EmptyMap) =>
          stddev(Result, stddevs_) = stddev(Lhs, stddevs_)
    /\ (last.op = "+" /\ is_atomic(Rhs) /\ Lhs.derivatives_ = EmptyMap) =>
          stddev(Result, stddevs_) = stddev(Rhs, stddevs_)

C3_Witness ==
    /\ last.op = "-" /\ Independent(Lhs, Rhs)
    /\ stddevs_[IdOf(Lhs)] = Tenth /\ stddevs_[IdOf(Rhs)] = Fifth
    /\ num_variables(Result) = 2

\* the product rule on one id, a missing entry counting as 0
ProductRule(lhs, rhs, id) ==
    FAdd(FMul(rhs.nominal_, MapGet(lhs.derivatives_, id)),
         FMul(lhs.nominal_, MapGet(rhs.derivatives_, id)))

\* C4: a * b has nominal a.nom * b.nom and, on every id of either operand,
\* the derivative b.nom * da[id] + a.nom * db[id], entries below the threshold
\* being pruned; so for atomic x the derivative of x * x on x's id is
\* 2 * nominal(x), and for independent x, y the variance of x * y is
\* (y.nom * sx)^2 + (x.nom * sy)^2, each term evaluated as stddev() does.
C4_ProductRule ==
    /\ (last.op = "*") =>
          /\ Result.nominal_ = FMul(Lhs.nominal_, Rhs.nominal_)
          /\ DOMAIN Result.derivatives_ =
                {id \in DOMAIN Lhs.derivatives_ \cup DOMAIN Rhs.derivatives_ :
                    ~Pruned(ProductRule(Lhs, Rhs, id))}
          /\ \A id \in DOMAIN Result.derivatives_ :
                Result.derivatives_[id] = ProductRule(Lhs, Rhs, id)
    /\ (last.op = "*" /\ last.a = last.b /\ is_atomic(Lhs)) =>
          /\ DOMAIN Result.derivatives_ =
                {id \in DOMAIN Lhs.derivatives_ :
                    ~Pruned(FMul(Two, Lhs.nominal_))}
          /\ \A id \in DOMAIN Result.derivatives_ :
                Result.derivatives_[id] = FMul(Two, Lhs.nominal_)
          /\ stddev(Result, stddevs_) =
                {IF Pruned(FMul(Two, Lhs.nominal_)) THEN Zero
                 ELSE FSqrt(VarianceTerm(FMul(Two, FAbs(Lhs.nominal_)),
                                         stddevs_[IdOf(Lhs)]))}
    /\ (last.op = "*" /\ Independent(Lhs, Rhs)) =>
          Variances(Result, stddevs_) =
              {FAdd(VarianceTerm(Rhs.nominal_, stddevs_[IdOf(Lhs)]),
                    VarianceTerm(Lhs.nominal_, stddevs_[IdOf(Rhs)]))}

C4_Witness ==
    /\ last.op = "*" /\ Independent(Lhs, Rhs)
    /\ Lhs.nominal_ = Tenth /\ Rhs.nominal_ = Two
    /\ num_variables(Result) = 2

\* C5 as amended: for independent x(1.0, 0.1) and y(2.0, 0.2),
\* stddev(x * y) is sqrt((2 * 0.1)^2 + (1 * 0.2)^2) = sqrt(0.08), about
\* 0.2828 and not 0.5.
IsTestXY(x, y) ==
    /\ Independent(x, y)
    /\ x.nominal_ = One /\ stddevs_[IdOf(x)] = Tenth
    /\ y.nominal_ = Two /\ stddevs_[IdOf(y)] = Fifth

C5_ProductStddev ==
    (last.op = "*" /\ IsTestXY(Lhs, Rhs)) =>
        /\ Result.nominal_ = Two
        /\ stddev(Result, stddevs_) =
              {FSqrt(FAdd(VarianceTerm(Two, Tenth), VarianceTerm(One, Fifth)))}
        /\ \A sd \in stddev(Result, stddevs_) :
              FLess(<<1, 0 - 2>>, sd) /\ FLess(sd, <<5, 0 - 4>>)

C5_Witness ==
    /\ last.op = "*" /\ IsTestXY(Lhs, Rhs)
    /\ Half \notin stddev(Result, stddevs_)

\* C5 as written: for independent x(1.0, 0.1) and y(2.0, 0.2),
\* stddev(x * y) == 0.5.
C5_Original ==
    (last.op = "*" /\ IsTestXY(Lhs, Rhs)) =>
        stddev(Result, stddevs_) = {Half}

IsPow2(f) == IAbs(f[1]) = 1

\* what 1/b - a/b^2 leaves on the id of x in x / x
SelfDivisionResidue(n) == FSub(FDiv(One, n), FDiv(n, FMul(n, n)))

\* the dividend is x * y and the divisor x, for independent atomic x and y
IsProductOverFactor(x, y) ==
    /\ last.op = "/" /\ last.a = TmpSlot /\ last.b \in VarSlots
    /\ x = Rhs
    /\ y \in {objs[i] : i \in VarSlots}
    /\ Independent(x, y)
    /\ Lhs \in {OpMul(x, y), OpMul(y, x)}

\* C6 as amended: for atomic x with nonzero nominal value, x / x has nominal 1
\* and at most one derivative entry, on x's id, holding the rounding residue
\* of 1/b - b/b^2; when x's nominal value is a power of two the residue is 0,
\* the map is empty and stddev() is 0, and (x * y) / x for independent x, y
\* has nominal y.nom and keeps only y's entry, with derivative 1.
C6_SelfDivision ==
    /\ (last.op = "/" /\ Returned /\ last.a = last.b /\ is_atomic(Lhs)) =>
          /\ Result.nominal_ = One
          /\ DOMAIN Result.derivatives_ =
                {id \in DOMAIN Lhs.derivatives_ :
                    ~Pruned(SelfDivisionResidue(Lhs.nominal_))}
          /\ \A id \in DOMAIN Result.derivatives_ :
                Result.derivatives_[id] = SelfDivisionResidue(Lhs.nominal_)
          /\ IsPow2(Lhs.nominal_) =>
                (num_variables(Result) = 0 /\ stddev(Result, stddevs_) = {Zero})
    /\ \A i \in VarSlots :
          (Returned /\ IsProductOverFactor(Rhs, objs[i]) /\ IsPow2(Rhs.nominal_)) =>
              /\ Result.nominal_ = objs[i].nominal_
              /\ Result.derivatives_ = Put(EmptyMap, IdOf(objs[i]), One)

C6_Witness ==
    /\ Returned
    /\ \E i \in VarSlots :
          /\ IsProductOverFactor(Rhs, objs[i])
          /\ Rhs.nominal_ = Two /\ objs[i].nominal_ = Tenth
    /\ num_variables(Result) = 1

\* C6 as written: for atomic x with nonzero nominal value, x / x has nominal 1
\* and stddev(x / x) == 0, the two contributions on the shared id cancelling;
\* (x * y) / x for independent x, y keeps only y's entry, with derivative 1.
C6_Original ==
    /\ (last.op = "/" /\ Returned /\ last.a = last.b /\ is_atomic(Lhs)) =>
          /\ Result.nominal_ = One
          /\ stddev(Result, stddevs_) = {Zero}
    /\ \A i \in VarSlots :
          (Returned /\ IsProductOverFactor(Rhs, objs[i])) =>
              Result.derivatives_ = Put(EmptyMap, IdOf(objs[i]), One)

\* C7: x.independent_copy() has x's nominal value and x's stddev(), and its
\* derivative map shares no id with x's: it is empty when stddev(x) is 0 and
\* holds one newly registered id otherwise (registered, for atomic x, with
\* x's deviation); so for atomic x(v, sigma) and such a copy y, x - y has
\* nominal 0 and variance 2 * sigma^2.
C7_IndependentCopy ==
    /\ (last.op = "independent_copy" /\ Returned) =>
          /\ Result.nominal_ = Lhs.nominal_
          /\ last.sd \in stddev(Lhs, stddevs_)
          /\ stddev(Result, stddevs_) = {last.sd}
          /\ DOMAIN Result.derivatives_ \cap DOMAIN Lhs.derivatives_ = {}
          /\ IF FLess(Zero, last.sd)
             THEN /\ DOMAIN Result.derivatives_ = {last.pre_next_id}
                  /\ last.pre_next_id \notin DOMAIN last.pre_stddevs
                  /\ last.pre_next_id \in DOMAIN stddevs_
             ELSE Result.derivatives_ = EmptyMap
          /\ is_atomic(Lhs) =>
                (is_atomic(Result) /\
                 stddevs_[IdOf(Result)] = stddevs_[IdOf(Lhs)])
    /\ (/\ last.op = "-" /\ Independent(Lhs, Rhs)
        /\ Lhs.nominal_ = Rhs.nominal_
        /\ stddevs_[IdOf(Lhs)] = stddevs_[IdOf(Rhs)]) =>
          /\ Result.nominal_ = Zero
          /\ Variances(Result, stddevs_) =
                {FMul(Two, FMul(stddevs_[IdOf(Lhs)], stddevs_[IdOf(Lhs)]))}
          /\ stddev(Result, stddevs_) =
                {FSqrt(FMul(Two, FMul(stddevs_[IdOf(Lhs)], stddevs_[IdOf(Lhs)])))}

C7_Witness ==
    /\ last.op = "independent_copy" /\ Returned
    /\ is_atomic(Lhs) /\ is_atomic(Result)
    /\ IdOf(Lhs) # IdOf(Result)

\* C8: udouble(), udouble(double) and udouble(double, 0) yield an empty
\* derivative map and register nothing; udouble(double, stddev > 0) registers
\* exactly one variable and yields the map {newID: 1.0}, newID being the id
\* the registry just issued.
C8_Construction ==
    /\ (last.op = "udouble()") =>
          Result = MkUdouble(Zero, EmptyMap)
    /\ (last.op = "udouble(double)") =>
          Result = MkUdouble(last.v, EmptyMap)
    /\ (last.op = "udouble(double,double)" /\ last.sd = Zero) =>
          (Returned /\ Result = MkUdouble(last.v, EmptyMap))
    /\ (\/ last.op \in {"udouble()", "udouble(double)"}
        \/ (last.op = "udouble(double,double)" /\ last.sd = Zero)) =>
          /\ stddevs_ = last.pre_stddevs
          /\ next_id_ = last.pre_next_id
    /\ (last.op = "udouble(double,double)" /\ FLess(Zero, last.sd)) =>
          /\ Returned
          /\ Result = MkUdouble(last.v, Put(EmptyMap, last.pre_next_id, One))
          /\ last.pre_next_id \notin DOMAIN last.pre_stddevs
          /\ stddevs_ = Put(last.pre_stddevs, last.pre_next_id, last.sd)
          /\ RegistrySize(stddevs_) = RegistrySize(last.pre_stddevs) + 1
          /\ next_id_ = last.pre_next_id + 1

C8_Witness ==
    /\ last.op = "udouble(double,double)" /\ FLess(Zero, last.sd)
    /\ last.pre_next_id = 2
    /\ Result.derivatives_ = Put(EmptyMap, 2, One)

\* C9: udouble(nominal, stddev < 0) and set_stddev(value < 0) raise
\* invalid_argument before touching the registry: its entries, size and next
\* id are unchanged, the constructor produces no scalar and the setter leaves
\* its receiver's nominal value and derivative map as they were.
C9_NegativeStddev ==
    (last.op \in {"udouble(double,double)", "set_stddev"}) =>
        /\ (last.threw = "invalid_argument") <=> FLess(last.sd, Zero)
        /\ FLess(last.sd, Zero) =>
              /\ stddevs_ = last.pre_stddevs
              /\ next_id_ = last.pre_next_id
              /\ objs = last.pre

C9_Witness ==
    /\ last.op = "set_stddev" /\ last.threw = "invalid_argument"
    /\ is_atomic(objs[last.a])
    /\ RegistrySize(stddevs_) = 1

\* the nominal value of the divisor of the last division
Divisor ==
    IF last.op = "/" THEN Rhs.nominal_
    ELSE IF last.op = "u/d" THEN last.v
    ELSE Lhs.nominal_

\* C10: a / b, c / a, a / c, a /= b and a /= c raise the division-by-zero
\* error exactly when the divisor's nominal value is zero, whatever its
\* derivative map and whatever the dividend; when they raise no result is
\* produced and the receiver of /= is unchanged.
C10_DivisionByZero ==
    (last.op \in {"/", "u/d", "d/u"}) =>
        /\ (last.threw = "runtime_error") <=> IsZero(Divisor)
        /\ ~IsZero(Divisor) => Returned
        /\ IsZero(Divisor) =>
              /\ objs = last.pre
              /\ stddevs_ = last.pre_stddevs
              /\ next_id_ = last.pre_next_id

C10_Witness ==
    /\ last.op = "/" /\ last.threw = "runtime_error"
    /\ IsZero(Lhs.nominal_) /\ IsZero(Rhs.nominal_)
    /\ num_variables(Rhs) = 1
    /\ last.dst = last.a

\* the last call registered a variable
Registered ==
    last.op # "none" /\ DOMAIN stddevs_ \ DOMAIN last.pre_stddevs # {}

\* C12: without reset, the ids issued are 1, 2, 3, ...: the k-th registration
\* returns k, which is greater than every id issued before, 0 is never
\* issued, and the id held by the new scalar is the one just issued.
C12_SequentialIds ==
    /\ next_id_ >= 1
    /\ DOMAIN stddevs_ = 1 .. (next_id_ - 1)
    /\ Registered =>
          /\ DOMAIN stddevs_ \ DOMAIN last.pre_stddevs = {last.pre_next_id}
          /\ last.pre_next_id = RegistrySize(last.pre_stddevs) + 1
          /\ last.pre_next_id # 0
          /\ \A id \in DOMAIN last.pre_stddevs : id < last.pre_next_id
          /\ DOMAIN Result.derivatives_ = {last.pre_next_id}
          /\ next_id_ = last.pre_next_id + 1

C12_Witness ==
    /\ Registered
    /\ last.pre_next_id = 3
    /\ DOMAIN stddevs_ = {1, 2, 3}
    /\ DOMAIN Result.derivatives_ = {3}

\* ids held by the scalars that existed before the last call
IdsBefore == UNION {DOMAIN last.pre[i].derivatives_ : i \in DOMAIN last.pre}

InFlight(t) == threads[t].pc \in {"reg_lock", "reg_insert", "reg_assign", "reg_return"}
AllReturned == \A t \in Threads : threads[t].pc = "idle"
\* thread t's lookup has read the map
LookedUp(t) ==
    threads[t].op = "get_stddev" /\ threads[t].pc \in {"get_return", "idle"}
\* the deviation was passed by a registration that was issued this id
PassedFor(id, sd) ==
    \/ \E i \in DOMAIN issued : issued[i].id = id /\ issued[i].stddev = sd
    \/ \E r \in Threads : InFlight(r) /\ threads[r].id = id /\ threads[r].arg = sd

\* C13: with registrations and lookups running concurrently and no reset,
\* every registration gets an id of its own; once all calls have returned
\* the registry holds exactly one entry per registration, mapping the id that
\* call returned to the deviation it passed; a lookup either fails with the
\* unknown-id error or returns the whole deviation some registration passed
\* for that id, never the value-initialised entry.
C13_NoLostUpdate ==
    /\ \A i \in DOMAIN issued, j \in DOMAIN issued :
          i # j => issued[i].id # issued[j].id
    /\ \A t \in Threads, r \in Threads :
          (t # r /\ InFlight(t) /\ InFlight(r)) => threads[t].id # threads[r].id
    /\ \A t \in Threads : InFlight(t) => threads[t].id \notin ReturnedIds
    /\ AllReturned =>
          /\ DOMAIN stddevs_ = ReturnedIds
          /\ RegistrySize(stddevs_) = Len(issued)
          /\ \A i \in DOMAIN issued : stddevs_[issued[i].id] = issued[i].stddev
    /\ \A t \in Threads :
          LookedUp(t) =>
              \/ threads[t].threw = "runtime_error"
              \/ /\ threads[t].threw = "none"
                 /\ ~IsZero(threads[t].ret)
                 /\ PassedFor(threads[t].arg, threads[t].ret)

C13_Witness ==
    /\ AllReturned
    /\ Len(issued) = 3
    /\ issued[1].id = 3 /\ issued[1].stddev = Fifth
    /\ {issued[i].thread : i \in DOMAIN issued} = Threads
    /\ RegistrySize(stddevs_) = 3

\* C14: in every interleaving of registrations and lookups without reset, an
\* id is in the registry map with its deviation before register_variable
\* returns it, so a lookup of an id that a registration had returned when the
\* lookup was called succeeds and yields that registration's deviation.
C14_StoredBeforeReturned ==
    /\ \A t \in Threads :
          threads[t].pc = "reg_return" =>
              /\ threads[t].id \in DOMAIN stddevs_
              /\ stddevs_[threads[t].id] = threads[t].arg
    /\ \A i \in DOMAIN issued :
          /\ issued[i].id \in DOMAIN stddevs_
          /\ stddevs_[issued[i].id] = issued[i].stddev
    /\ \A t \in Threads :
          (LookedUp(t) /\ threads[t].arg \in threads[t].seen) =>
              /\ threads[t].threw = "none"
              /\ \E i \in DOMAIN issued :
                    issued[i].id = threads[t].arg /\ issued[i].stddev = threads[t].ret

C14_Witness ==
    \E t \in Threads, r \in Threads :
        /\ LookedUp(t) /\ threads[t].pc = "idle"
        /\ threads[t].arg \in threads[t].seen
        /\ threads[t].ret = Tenth
        /\ threads[r].pc = "reg_assign"

\* C15: once clear() has returned, size() is 0, the lookup of every id issued
\* before fails, allocation restarts at 1 so that the next registration
\* returns id 1, and no scalar is touched.
C15_Reset ==
    /\ (last.op = "clear") =>
          /\ Returned
          /\ RegistrySize(stddevs_) = 0
          /\ \A id \in DOMAIN last.pre_stddevs : GetStddevThrows(stddevs_, id)
          /\ next_id_ = 1
          /\ RegisteredId(next_id_) = 1
          /\ objs = last.pre
    /\ (last.op = "size" /\ last.pre_stddevs = EmptyMap) => last.n = 0
    /\ (last.op = "get_stddev" /\ last.pre_stddevs = EmptyMap) =>
          last.threw = "runtime_error"
    /\ (Registered /\ last.pre_stddevs = EmptyMap) =>
          /\ DOMAIN Result.derivatives_ = {1}
          /\ DOMAIN stddevs_ = {1}
          /\ next_id_ = 2

C15_Witness ==
    /\ Registered /\ last.pre_stddevs = EmptyMap
    /\ DOMAIN Result.derivatives_ = {1}
    /\ DOMAIN objs[1].derivatives_ = {1}
    /\ last.dst = TmpSlot

\* a < b as real numbers, for values whose exponents are close
ExactLess(a, b) ==
    LET e == IF a[2] < b[2] THEN a[2] ELSE b[2]
    IN a[1] * (2 ^ (a[2] - e)) < b[1] * (2 ^ (b[2] - e))

ExactCompared(op, a, b) ==
    CASE op = "==" -> ~ExactLess(a, b) /\ ~ExactLess(b, a)
      [] op = "!=" -> ExactLess(a, b) \/ ExactLess(b, a)
      [] op = "<" -> ExactLess(a, b)
      [] op = ">" -> ExactLess(b, a)
      [] op = "<=" -> ~ExactLess(b, a)
      [] op = ">=" -> ~ExactLess(a, b)

OneOf(p, q, r) == (p /\ ~q /\ ~r) \/ (~p /\ q /\ ~r) \/ (~p /\ ~q /\ r)

DomainOps ==
    {"log", "log10", "sqrt", "asin", "acos", "acosh", "atanh", "atan2", "pow",
     "sin", "cos", "atan", "sinh", "cosh", "tanh", "asinh", "exp", "abs", "hypot"}

\* the nominal values on which the claim says the call raises: xv is the
\* nominal value of the first argument, yv of the second
DomainError(op, xv, yv) ==
    CASE op \in {"log", "log10", "sqrt"} -> FLessEq(xv, Zero)
      [] op \in {"asin", "acos"} -> FLessEq(xv, FNeg(One)) \/ FLessEq(One, xv)
      [] op = "acosh" -> FLessEq(xv, One)
      [] op = "atanh" -> FLessEq(xv, FNeg(One)) \/ FLessEq(One, xv)
      [] op = "atan2" -> IsZero(xv) /\ IsZero(yv)
      [] op = "pow" -> FLessEq(xv, Zero)
      [] OTHER -> FALSE

\* C11: a guarded function raises, and stores no result, exactly when the
\* nominal values of its arguments are in its error domain (log, log10, sqrt:
\* x <= 0; asin, acos: x <= -1 or x >= 1; acosh: x <= 1; atanh: x <= -1 or
\* x >= 1; atan2: both nominal values 0; pow: base <= 0), whatever the
\* derivative maps hold; sin, cos, atan, sinh, cosh, tanh, asinh, exp, abs and
\* hypot never raise.
C11_DomainErrors ==
    last.op \in DomainOps =>
        /\ (last.threw # "none") <=>
               DomainError(last.op, Lhs.nominal_,
                           IF last.b = 0 THEN Zero ELSE Rhs.nominal_)
        /\ last.threw # "none" => objs = last.pre

\* C17: no scalar holds a derivative entry whose absolute value is below the
\* pruning threshold; in particular none holds an entry equal to zero.
C17_NoNegligibleEntry ==
    \A i \in DOMAIN objs :
        \A id \in DOMAIN objs[i].derivatives_ :
            ~Pruned(objs[i].derivatives_[id])

\* the calls that can register a variable
RegisteringOps == {"udouble(double,double)", "independent_copy", "set_stddev"}

\* C16: without reset every registry entry keeps its id and its deviation, so
\* the size never decreases; the registry and the next id change only when a
\* construction, independent_copy or set_stddev with a positive deviation
\* registers, and then by exactly one new entry; every other call (operators,
\* compound assignments, pow, elementary functions, comparisons, copies,
\* accessors, stddev()) leaves the registry and the next id as they were; and
\* every scalar other than the one a call stores into is left unchanged.
C16_Frame ==
    last.op # "none" =>
        /\ \A i \in DOMAIN last.pre :
              i # last.dst => (i \in DOMAIN objs /\ objs[i] = last.pre[i])
        /\ last.op # "clear" =>
              /\ \A id \in DOMAIN last.pre_stddevs :
                    id \in DOMAIN stddevs_ /\ stddevs_[id] = last.pre_stddevs[id]
              /\ RegistrySize(stddevs_) >= RegistrySize(last.pre_stddevs)
              /\ \/ stddevs_ = last.pre_stddevs /\ next_id_ = last.pre_next_id
                 \/ /\ last.op \in RegisteringOps
                    /\ Returned /\ FLess(Zero, last.sd)
                    /\ RegistrySize(stddevs_) = RegistrySize(last.pre_stddevs) + 1
                    /\ next_id_ = last.pre_next_id + 1

C16_Witness ==
    /\ last.op = "udouble(double,double)" /\ Returned
    /\ RegistrySize(last.pre_stddevs) = 2
    /\ RegistrySize(stddevs_) = 3
    /\ stddevs_[1] = Tenth /\ stddevs_[2] = Fifth

C21_Atan2Merge ==
    /\ (last.op = "atan2" /\ last.a = last.b /\ is_atomic(Lhs)
            /\ ~IsZero(Lhs.nominal_)) =>
          /\ Returned
          /\ Result.derivatives_ = EmptyMap
          /\ stddev(Result, stddevs_) = {Zero}
    /\ (last.op = "atan2" /\ Independent(Lhs, Rhs) /\ Returned) =>
          LET denom == atan2_denom(Lhs, Rhs) IN
          Result.derivatives_ = prune_derivatives(
              (IdOf(Lhs) :> FDiv(Rhs.nominal_, denom))
                  @@ (IdOf(Rhs) :> FDiv(FNeg(Lhs.nominal_), denom)))

\* ------------------------------------------- compound assignments
\* x is constructed, y is a copy of x (udouble y = x) or a variable of its own
InitAssign ==
    \E nx \in Nominals, sx \in {Zero, Tenth} :
        LET cx == Constructed(EmptyMap, 1, nx, sx) IN
        \E copied \in BOOLEAN, ny \in {Zero, Two}, sy \in {Zero, Fifth} :
            LET cy == IF copied THEN cx
                      ELSE Constructed(cx.reg, cx.next, ny, sy)
            IN /\ copied => (ny = Zero /\ sy = Zero)
               /\ stddevs_ = cy.reg
               /\ next_id_ = cy.next
               /\ objs = Put(Put(EmptyMap, 1, cx.u), 2, cy.u)
               /\ steps = 0
               /\ NoCalls
               /\ last = NoCall

\* a op= b is *this = *this op rhs: the binary operator, then the receiver
\* replaced by its result
NextAssign ==
    \/ \E a \in VarSlots, b \in VarSlots : steps < MaxOps /\ Add(a, b, a)
    \/ \E a \in VarSlots, b \in VarSlots : steps < MaxOps /\ Sub(a, b, a)
    \/ \E a \in VarSlots, b \in VarSlots : steps < MaxOps /\ Mul(a, b, a)
    \/ \E a \in VarSlots, b \in VarSlots : steps < MaxOps /\ Div(a, b, a)
    \/ \E a \in VarSlots, c \in Doubles : steps < MaxOps /\ MulDouble(a, c, a)
    \/ \E a \in VarSlots, c \in Doubles : steps < MaxOps /\ DivDouble(a, c, a)

SpecAssign == InitAssign /\ [][NextAssign]_vars

\* what the binary operator named op returns for lhs and rhs (or the double c)
Binary(op, lhs, rhs, c) ==
    CASE op = "+" -> OpAdd(lhs, rhs)
      [] op = "-" -> OpSub(lhs, rhs)
      [] op = "*" -> OpMul(lhs, rhs)
      [] op = "/" -> OpDiv(lhs, rhs)
      [] op = "u*d" -> OpMulDouble(lhs, c)
      [] op = "u/d" -> OpDivDouble(lhs, c)

CompoundOps == {"+", "-", "*", "/", "u*d", "u/d"}

\* the last call was a compound assignment: the receiver is the left operand
Compound == last.op \in CompoundOps /\ last.dst = last.a

\* C22: a compound assignment leaves the receiver in the state of the binary
\* operator applied to the receiver's old state and the right operand, also
\* when the right operand is the receiver or a copy of it (y = x; y -= x gives
\* 0 +- 0); it changes no other scalar and nothing in the registry, and when
\* the operator throws the receiver is unchanged.
C22_CompoundAssignment ==
    Compound =>
        /\ Returned =>
              objs[last.a] =
                  Binary(last.op, Lhs,
                         IF last.b = 0 THEN Lhs ELSE Rhs, last.v)
        /\ ~Returned => objs = last.pre
        /\ \A s \in DOMAIN objs \ {last.a} : objs[s] = last.pre[s]
        /\ stddevs_ = last.pre_stddevs /\ next_id_ = last.pre_next_id
        /\ (last.op = "-" /\ AsConstructed(Lhs) /\ Rhs = Lhs) =>
              /\ Returned
              /\ objs[last.a].nominal_ = Zero
              /\ objs[last.a].derivatives_ = EmptyMap
              /\ stddev(objs[last.a], stddevs_) = {Zero}

\* y = x; y -= x with x carrying an uncertainty
C22_Witness ==
    /\ Compound /\ last.op = "-" /\ Returned
    /\ last.a # last.b /\ Rhs = Lhs /\ is_atomic(Lhs)
    /\ objs[last.a].derivatives_ = EmptyMap
    /\ objs[last.b] = Rhs

\* ------------------------------------- sums, differences and negations
\* u + w, u - w, -u, +u and u * 2.0 on x, y and the previous result
NextLin ==
    \/ \E a \in Slots, b \in Slots : Chained(a, b) /\ Add(a, b, TmpSlot)
    \/ \E a \in Slots, b \in Slots : Chained(a, b) /\ Sub(a, b, TmpSlot)
    \/ \E a \in Slots : Chained(a, a) /\ Negate(a, TmpSlot)
    \/ \E a \in Slots : Chained(a, a) /\ UnaryPlus(a, TmpSlot)
    \/ \E a \in Slots : Chained(a, a) /\ MulDouble(a, Two, TmpSlot)

SpecLin == InitReset /\ [][NextLin]_vars

\* the variables x and y
Xs == {objs[i] : i \in VarSlots}

\* the last call subtracted b from a + b
SumMinus(a, b) ==
    /\ last.op = "-" /\ Returned
    /\ Rhs = b
    /\ Lhs = OpAdd(a, b)

\* C23 as amended: + - and unary negation are linear on derivative maps up to
\* the rounding of each operation: (a + b) - b has the nominal value
\* (a.nom + b.nom) - b.nom as the two operations round it and the derivative
\* map of a whenever a and b share no id or are the same variable; a + b
\* equals b + a, a + (-a) has an empty map, -(-a) equals a and unary plus
\* returns an identical copy; (x + y) - x carries only y's entry with
\* derivative 1, ((x + x) + x) - x has derivative 2 on x, and x * 2.0 has the
\* derivative map of x + x.
C23_Linear ==
    /\ \A a \in Xs, b \in Xs :
          SumMinus(a, b) =>
              /\ Result.nominal_ =
                    FSub(FAdd(a.nominal_, b.nominal_), b.nominal_)
              /\ (DOMAIN a.derivatives_ \cap DOMAIN b.derivatives_ = {}
                      \/ (a = b /\ AsConstructed(a))) =>
                    Result.derivatives_ = a.derivatives_
    /\ (last.op = "+" /\ Returned) => Result = OpAdd(Rhs, Lhs)
    /\ (last.op = "+" /\ Returned /\ Rhs = OpNeg(Lhs)) =>
          Result.derivatives_ = EmptyMap
    /\ \A a \in Xs :
          (last.op = "-x" /\ Lhs = OpNeg(a)) => Result = a
    /\ last.op = "+x" => Result = Lhs
    /\ \A x \in Xs, y \in Xs :
          (Independent(x, y) /\ SumMinus(y, x)) =>
              Result.derivatives_ = Put(EmptyMap, IdOf(y), One)
    /\ \A x \in Xs :
          (is_atomic(x) /\ last.op = "-" /\ Rhs = x
                /\ Lhs = OpAdd(OpAdd(x, x), x)) =>
              Result.derivatives_ = Put(EmptyMap, IdOf(x), Two)
    /\ (last.op = "u*d" /\ last.v = Two) =>
          Result.derivatives_ = OpAdd(Lhs, Lhs).derivatives_

\* (y + x) - x for independent x and y whose sum is rounded: the map is y's,
\* the nominal value is not
C23_Witness ==
    \E a \in Xs, b \in Xs :
        /\ SumMinus(a, b) /\ Independent(a, b)
        /\ Result.derivatives_ = a.derivatives_
        /\ Result.nominal_ # a.nominal_

\* C23 as written: (a + b) - b has the same nominal value and derivative map
\* as a.
C23_Original ==
    \A a \in Xs, b \in Xs :
        SumMinus(a, b) =>
            /\ Result.nominal_ = a.nominal_
            /\ Result.derivatives_ = a.derivatives_

\* ------------------------ elementary functions in sums and quotients
\* f(u), u + w, u - w and r / r on x, y and the previous result r
NextCorr ==
    \/ \E f \in UnaryNames, a \in Slots :
          steps < MaxOps /\ Chained(a, a) /\ ElementaryCall(f, a, TmpSlot)
    \/ \E a \in Slots, b \in Slots :
          steps < MaxOps /\ Chained(a, b) /\ Add(a, b, TmpSlot)
    \/ \E a \in Slots, b \in Slots :
          steps < MaxOps /\ Chained(a, b) /\ Sub(a, b, TmpSlot)
    \/ steps < MaxOps /\ TmpSlot \in Live /\ Div(TmpSlot, TmpSlot, TmpSlot)

SpecCorr == InitMath /\ [][NextCorr]_vars

\* the derivative f'(val) that f hands to apply_chain_rule, read off f applied
\* to a variable of derivative 1: the empty map when it is negligible
Slope(f, val) == Elementary(f, MkUdouble(val, Put(EmptyMap, 0, One))).derivatives_

\* the scalars f(x) and f(y) for the functions f defined there
Applied ==
    {Elementary(p[1], p[2]) :
        p \in {q \in UnaryNames \X Xs :
                  ~Raises(q[1], q[2]) /\ Tabulated(q[1], q[2].nominal_)}}

\* the last call was r op r for r = f(x) or r = f(y)
OnApplied(op) ==
    /\ last.op = op /\ last.a = last.b
    /\ Lhs \in Applied /\ Lhs.derivatives_ # EmptyMap

\* C24 as amended: a one-argument function multiplies every entry of its
\* argument's derivative map by the same scalar f'(nominal), dropping the
\* negligible products, and brings in no id: the result's ids are among the
\* argument's, a constant gives a constant, f(x) - f(x) has an empty map, and
\* (for f(x) nonzero) f(x) / f(x) has nominal 1 and on each id of f(x) at most
\* the rounding residue of 1/b - b/b^2 times the entry, b = f(x)'s nominal
\* value: when b is a power of two the map is empty and stddev() is 0.
C24_ChainRule ==
    /\ (last.op \in UnaryNames /\ Returned) =>
          /\ DOMAIN Result.derivatives_ \subseteq DOMAIN Lhs.derivatives_
          /\ Lhs.derivatives_ = EmptyMap => Result.derivatives_ = EmptyMap
          /\ LET slope == Slope(last.op, Lhs.nominal_) IN
             IF slope = EmptyMap
             THEN Result.derivatives_ = EmptyMap
             ELSE Result.derivatives_ =
                      prune_derivatives(SetScaled(Lhs.derivatives_, slope[0]))
    /\ OnApplied("-") =>
          /\ Returned
          /\ Result.nominal_ = Zero
          /\ Result.derivatives_ = EmptyMap
    /\ (OnApplied("/") /\ ~IsZero(Lhs.nominal_)) =>
          /\ Returned
          /\ Result.nominal_ = One
          /\ Result.derivatives_ =
                prune_derivatives(
                    [id \in DOMAIN Lhs.derivatives_ |->
                        FSub(FMul(inv_b(Lhs), Lhs.derivatives_[id]),
                             FMul(a_over_b_sq(Lhs, Lhs), Lhs.derivatives_[id]))])
          /\ IsPow2(Lhs.nominal_) =>
                (Result.derivatives_ = EmptyMap
                    /\ stddev(Result, stddevs_) = {Zero})

\* f(x) / f(x) keeping a residue on x's id
C24_Witness ==
    /\ OnApplied("/") /\ Returned
    /\ DOMAIN Result.derivatives_ = DOMAIN Lhs.derivatives_
    /\ Result.nominal_ = One

\* C24 as written: for f(x) nonzero, f(x) / f(x) has stddev 0.
C24_Original ==
    (OnApplied("/") /\ ~IsZero(Lhs.nominal_)) =>
        (Returned /\ stddev(Result, stddevs_) = {Zero})

\* C25: abs multiplies the derivative map by the sign of the nominal value,
\* +1, -1 or exactly 0 at 0: for a nonzero nominal value abs(x).stddev()
\* equals x.stddev(), abs(x) - x has an empty map when the nominal value is
\* positive and abs(x) + x when it is negative, and abs at nominal value 0 has
\* an empty map.
C25_AbsSign ==
    /\ (last.op = "abs" /\ Returned) =>
          /\ Result.nominal_ = FAbs(Lhs.nominal_)
          /\ FLess(Zero, Lhs.nominal_) =>
                Result.derivatives_ = Lhs.derivatives_
          /\ FLess(Lhs.nominal_, Zero) =>
                Result.derivatives_ = OpNeg(Lhs).derivatives_
          /\ IsZero(Lhs.nominal_) => Result.derivatives_ = EmptyMap
          /\ ~IsZero(Lhs.nominal_) =>
                stddev(Result, stddevs_) = stddev(Lhs, stddevs_)
    /\ last.op = "abs" => Returned
    /\ (last.op = "-" /\ Rhs \in Xs /\ FLess(Zero, Rhs.nominal_)
            /\ Lhs = abs(Rhs)) =>
          (Returned /\ Result.derivatives_ = EmptyMap)
    /\ (last.op = "+" /\ Rhs \in Xs /\ FLess(Rhs.nominal_, Zero)
            /\ Lhs = abs(Rhs)) =>
          (Returned /\ Result.derivatives_ = EmptyMap)

\* abs(x) + x for a variable x of negative nominal value
C25_Witness ==
    /\ last.op = "+" /\ Returned
    /\ Rhs \in Xs /\ is_atomic(Rhs) /\ FLess(Rhs.nominal_, Zero)
    /\ Lhs = abs(Rhs)
    /\ Lhs.derivatives_ = Put(EmptyMap, IdOf(Rhs), FNeg(One))
    /\ Result.derivatives_ = EmptyMap

\* the values stddev(x)^2 + stddev(y)^2 can take, rounded as double
Quadrature(x, y) ==
    {FSqrt(FAdd(FMul(sx, sx), FMul(sy, sy))) :
        sx \in stddev(x, stddevs_), sy \in stddev(y, stddevs_)}

\* hypot was called with both nominal values 0
HypotAtOrigin ==
    last.op = "hypot" /\ IsZero(Lhs.nominal_) /\ IsZero(Rhs.nominal_)

\* C26: when both nominal values are 0, hypot(x, y) returns nominal value 0
\* with the entry-wise sum of the two derivative maps, and its stddev() is
\* sqrt(stddev(x)^2 + stddev(y)^2), for all x and y (compared here for x and
\* y as constructed, where the quadrature is exact in double arithmetic).
C26_HypotOrigin ==
    HypotAtOrigin =>
        /\ Returned
        /\ Result.nominal_ = Zero
        /\ Result.derivatives_ =
              AddEach(AddEach(EmptyMap, Lhs.derivatives_), Rhs.derivatives_)
        /\ (AsConstructed(Lhs) /\ AsConstructed(Rhs)) =>
              stddev(Result, stddevs_) = Quadrature(Lhs, Rhs)

\* C27: get_stddev(id) returns the stored deviation when id is in the map and
\* throws otherwise; so stddev() of a scalar holding an id that clear() has
\* erased throws until the id is issued again, and from then on returns the
\* value computed from the new variable's deviation; constants are unaffected
\* and clear() leaves every nominal value and map as it was.
C27_Lookup ==
    /\ last.op = "get_stddev" =>
          IF last.n \in DOMAIN stddevs_
          THEN Returned /\ last.sd = stddevs_[last.n]
          ELSE last.threw = "runtime_error"
    /\ last.op = "stddev" =>
          IF DOMAIN Lhs.derivatives_ \subseteq DOMAIN stddevs_
          THEN /\ Returned
               /\ last.sd \in stddev(Lhs, stddevs_)
               /\ is_atomic(Lhs) => last.sd = stddevs_[IdOf(Lhs)]
               /\ Lhs.derivatives_ = EmptyMap => last.sd = Zero
          ELSE last.threw = "runtime_error"
    /\ last.op = "clear" => objs = last.pre

\* x.stddev() after clear() and the construction of a variable that was given
\* x's id: the new variable's deviation is returned
C27_Witness ==
    /\ last.op = "stddev" /\ Returned /\ last.a = 1
    /\ TmpSlot \in Live
    /\ DOMAIN objs[TmpSlot].derivatives_ = DOMAIN objs[1].derivatives_
    /\ DOMAIN objs[1].derivatives_ = {1}
    /\ last.sd = Fifth

\* --------------------------------------- clear() among registrations
\* clear() is called
CallClear(t) == StartCall(t, "clear", Zero)

\* std::unique_lock lock(mutex_)
ClearLock(t) ==
    /\ At(t, "clear")
    /\ LockUnique(t)
    /\ mutex_' = [mutex_ EXCEPT !.writer = t]
    /\ Goto(t, "clear_map")
    /\ UNCHANGED <<stddevs_, next_id_, objs, last, steps, issued>>

\* stddevs_.clear(); the reset is noted among the registrations returned
ClearMap(t) ==
    /\ At(t, "clear_map")
    /\ stddevs_' = EmptyMap
    /\ issued' = Append(issued, [id |-> 0, stddev |-> Zero, thread |-> t])
    /\ Goto(t, "clear_store")
    /\ UNCHANGED <<next_id_, objs, last, steps, mutex_>>

\* next_id_.store(1, relaxed)
ClearStore(t) ==
    /\ At(t, "clear_store")
    /\ next_id_' = 1
    /\ Goto(t, "clear_return")
    /\ UNCHANGED <<stddevs_, objs, last, steps, mutex_, issued>>

\* clear() returning with the lock still held
ClearReturnKeepsLock(t) ==
    /\ At(t, "clear_return")
    /\ Goto(t, "idle")
    /\ UNCHANGED <<stddevs_, next_id_, objs, last, steps, mutex_, issued>>

\* the lock is released
ClearReturn(t) ==
    /\ At(t, "clear_return")
    /\ mutex_' = [mutex_ EXCEPT !.writer = 0]
    /\ Goto(t, "idle")
    /\ UNCHANGED <<stddevs_, next_id_, objs, last, steps, issued>>

NextEpoch ==
    \/ \E t \in Threads, sd \in RegSigmas : CallRegister(t, sd)
    \/ \E t \in Threads : RegFetchAdd(t)
    \/ \E t \in Threads : RegLock(t)
    \/ \E t \in Threads : RegInsert(t)
    \/ \E t \in Threads : RegAssign(t)
    \/ \E t \in Threads : RegReturn(t)
    \/ \E t \in Threads : CallClear(t)
    \/ \E t \in Threads : ClearLock(t)
    \/ \E t \in Threads : ClearMap(t)
    \/ \E t \in Threads : ClearStore(t)
    \/ \E t \in Threads : ClearReturn(t)

SpecEpoch == InitReg /\ [][NextEpoch]_vars

\* a registration is between its call and its return
Registering(t) == threads[t].op = "register_variable" /\ ~At(t, "idle")

\* C28: in every interleaving of register_variable() and clear(), no id is
\* returned by two registrations that inserted their entries after the same
\* clear(), no registration writes over an entry that is in the map, and
\* whenever no registration is in progress every key of the map is below the
\* next id of the counter.
C28_EpochUnique ==
    /\ \A i \in DOMAIN issued, j \in DOMAIN issued :
          (i < j /\ issued[i].id # 0 /\ issued[i].id = issued[j].id) =>
              \E k \in DOMAIN issued : i < k /\ k < j /\ issued[k].id = 0
    /\ \A t \in Threads :
          At(t, "reg_insert") => threads[t].id \notin DOMAIN stddevs_
    /\ (\A t \in Threads : ~Registering(t)) =>
          \A id \in DOMAIN stddevs_ : id < next_id_

\* ------------------------------------------------ no clear() at all
\* The state after `udouble x(2.0, 0.1); udouble y(1.0, 0.2);` on a fresh
\* registry; then constructions, copies, setters, operators, compound
\* assignments and umath functions on x, y and the previous result, and never
\* clear().
InitNoReset ==
    LET cx == Constructed(EmptyMap, 1, Two, Tenth)
        cy == Constructed(cx.reg, cx.next, One, Fifth)
    IN /\ stddevs_ = cy.reg
       /\ next_id_ = cy.next
       /\ objs = Put(Put(EmptyMap, 1, cx.u), 2, cy.u)
       /\ steps = 0
       /\ NoCalls
       /\ last = NoCall

NextNoReset ==
    \/ \E sd \in {Zero, Fifth} : steps < MaxOps /\ Construct(TmpSlot, One, sd)
    \/ \E a \in VarSlots : steps < MaxOps /\ IndependentCopy(a, TmpSlot)
    \/ \E s \in VarSlots, sd \in {FNeg(Tenth), Zero, Fifth} :
          steps < MaxOps /\ SetStddev(s, sd)
    \/ \E a \in Slots, b \in Slots : steps < MaxOps /\ Chained(a, b) /\ Add(a, b, TmpSlot)
    \/ \E a \in Slots, b \in Slots : steps < MaxOps /\ Chained(a, b) /\ Sub(a, b, TmpSlot)
    \/ \E a \in Slots, b \in Slots : steps < MaxOps /\ Chained(a, b) /\ Mul(a, b, TmpSlot)
    \/ \E a \in Slots, b \in Slots : steps < MaxOps /\ Chained(a, b) /\ Div(a, b, TmpSlot)
    \/ \E a \in VarSlots, b \in VarSlots : steps < MaxOps /\ Sub(a, b, a)
    \/ \E a \in VarSlots : steps < MaxOps /\ MulDouble(a, Two, a)
    \/ \E a \in Slots : steps < MaxOps /\ Chained(a, a) /\ Negate(a, TmpSlot)
    \/ \E f \in UnaryNames, a \in Slots :
          steps < MaxOps /\ Chained(a, a) /\ ElementaryCall(f, a, TmpSlot)
    \/ \E a \in Slots, b \in Slots :
          steps < MaxOps /\ Chained(a, b) /\ PowCall(a, b, TmpSlot)
    \/ \E a \in Slots, b \in Slots :
          steps < MaxOps /\ Chained(a, b) /\ Atan2Call(a, b, TmpSlot)
    \/ \E a \in Slots, b \in Slots :
          steps < MaxOps /\ Chained(a, b) /\ HypotCall(a, b, TmpSlot)
    \/ \E a \in Slots : steps < MaxOps /\ StddevCall(a)

SpecNoReset == InitNoReset /\ [][NextNoReset]_vars

\* the calls that return a scalar computed from their operands
DerivingOps ==
    {"+", "-", "*", "/", "u*d", "-x", "pow", "atan2", "hypot"} \cup UnaryNames

CallStddev(t, n) == StartCall(t, "stddev", n)

\* registry.get_stddev(id) inside the loop: std::shared_lock lock(mutex_)
StddevLock(t) ==
    /\ At(t, "stddev")
    /\ LockShared(t)
    /\ mutex_' = [mutex_ EXCEPT !.readers = @ \cup {t}]
    /\ Goto(t, "stddev_find")
    /\ UNCHANGED <<stddevs_, next_id_, objs, last, steps, issued>>

\* find(id) and the end of get_stddev: the lock is released by the return and
\* by the throw alike; stddev() returns after the last entry, and the
\* exception leaves it at once
StddevFind(t) ==
    /\ At(t, "stddev_find")
    /\ mutex_' = [mutex_ EXCEPT !.readers = @ \ {t}]
    /\ threads' =
          IF GetStddevThrows(stddevs_, threads[t].arg)
          THEN [threads EXCEPT ![t].threw = "runtime_error", ![t].pc = "idle"]
          ELSE [threads EXCEPT ![t].ret = get_stddev(stddevs_, threads[t].arg),
                               ![t].arg = @ - 1,
                               ![t].id = @ + 1,
                               ![t].pc = IF threads[t].arg = 1 THEN "idle"
                                         ELSE "stddev"]
    /\ UNCHANGED <<stddevs_, next_id_, objs, last, steps, issued>>

\* the steps of thread t
ThreadStep(t) ==
    \/ CallRegister(t, Tenth)
    \/ RegFetchAdd(t)
    \/ RegLock(t)
    \/ RegInsert(t)
    \/ RegAssign(t)
    \/ RegReturn(t)
    \/ CallGetStddev(t, 1)
    \/ GetLock(t)
    \/ GetFind(t)
    \/ GetReturn(t)
    \/ CallSize(t)
    \/ SizeLock(t)
    \/ SizeRead(t)
    \/ SizeReturn(t)
    \/ CallClear(t)
    \/ ClearLock(t)
    \/ ClearMap(t)
    \/ ClearStore(t)
    \/ ClearReturn(t)
    \/ CallStddev(t, 2)
    \/ StddevLock(t)
    \/ StddevFind(t)

\* the steps of t inside a call
Running(t) == ~At(t, "idle") /\ ThreadStep(t)

\* the threads that make calls here
Callers == 1 .. 2

NextLive == \E t \in Callers : ThreadStep(t)

\* every thread inside a call is scheduled again and again
SpecLive ==
    InitReg /\ [][NextLive]_vars /\ \A t \in Callers : WF_vars(Running(t))

\* thread t holds the lock
Holds(t) == mutex_.writer = t \/ t \in mutex_.readers

\* the places where a call asks for the lock
LockPcs == {"reg_lock", "get_stddev", "size", "clear", "stddev"}

\* C30: register_variable, get_stddev, size and clear take the registry lock
\* once, never while holding it, and release it before they return, and
\* stddev() takes the shared lock once for each entry, never nested; so with
\* every thread scheduled fairly each of the concurrent calls completes.
C30_Completes ==
    /\ [](\A t \in Threads :
            /\ (At(t, "idle") \/ threads[t].pc \in LockPcs
                    \/ At(t, "register_variable")) => ~Holds(t)
            /\ mutex_.writer # 0 => mutex_.readers = {})
    /\ \A t \in Threads : ~At(t, "idle") ~> At(t, "idle")

\* a stddev() that has taken and released the shared lock for both entries
\* and returned
C30_Witness ==
    \E t \in Threads :
        /\ threads[t].op = "stddev" /\ At(t, "idle")
        /\ threads[t].threw = "none"
        /\ threads[t].id = 2
        /\ ~Holds(t)

====
